---- MODULE Spec2Model ----
(***************************************************************************)
(* Treasury-Bills-Calc: the financial calculation engine                   *)
(* (src/treasury_core/calculations.py, src/treasury_core/models.py).       *)
(*                                                                         *)
(* The calculators compute with decimal.Decimal under a context precision  *)
(* of 10 significant digits (calculations.py:14).  Coefficients of ten     *)
(* digits and their products do not fit TLC's 32-bit integers, so a        *)
(* coefficient is a sequence of decimal digits, most significant first,    *)
(* without leading zeros (<<>> is zero), and the Decimal operations are    *)
(* written out digit by digit.                                             *)
(***************************************************************************)
EXTENDS Integers, Sequences, FiniteSets, TLC

(***************************************************************************)
(* Program constants.                                                      *)
(***************************************************************************)
DECIMAL_PREC == 10

DAYS_IN_YEAR == 365

MIN_T_BILL_AMOUNT == 25000

MAX_T_BILL_AMOUNT == 10000000

MAX_YIELD_RATE == 100

MAX_TENOR_DAYS == 365

(***************************************************************************)
(* Natural numbers as digit sequences.                                     *)
(***************************************************************************)
Zeros(k) == [i \in 1..k |-> 0]

RECURSIVE Strip(_)
Strip(s) == IF s = <<>> THEN <<>> ELSE IF s[1] # 0 THEN s ELSE Strip(Tail(s))

RECURSIVE NatDigits(_)
NatDigits(n) == IF n = 0 THEN <<>> ELSE Append(NatDigits(n \div 10), n % 10)

PadLeft(s, n) == Zeros(n - Len(s)) \o s

\* -1, 0 or 1 as a < b, a = b, a > b (both without leading zeros)
RECURSIVE CmpFrom(_, _, _)
CmpFrom(a, b, i) ==
    IF i > Len(a) THEN 0
    ELSE IF a[i] # b[i] THEN (IF a[i] < b[i] THEN -1 ELSE 1)
    ELSE CmpFrom(a, b, i + 1)

NatCmp(a, b) ==
    IF Len(a) # Len(b)
    THEN (IF Len(a) < Len(b) THEN -1 ELSE 1)
    ELSE CmpFrom(a, b, 1)

(***************************************************************************)
(* The arithmetic on coefficients works on groups of four digits, least    *)
(* significant group first, so that a coefficient of a 28-digit context    *)
(* and the products and dividends built from it are handled in a few       *)
(* steps.                                                                  *)
(***************************************************************************)
\* the j-th digit from the right, 0 beyond the most significant digit
DigitR(s, j) == IF j >= 1 /\ j <= Len(s) THEN s[Len(s) + 1 - j] ELSE 0

Limbs(s) ==
    [k \in 1..((Len(s) + 3) \div 4) |->
        DigitR(s, 4 * k - 3) + 10 * DigitR(s, 4 * k - 2)
          + 100 * DigitR(s, 4 * k - 1) + 1000 * DigitR(s, 4 * k)]

Pow10(r) == CASE r = 0 -> 1 [] r = 1 -> 10 [] r = 2 -> 100 [] OTHER -> 1000

\* back to digits, most significant first, without leading zeros
Digits(L) ==
    Strip([i \in 1..(4 * Len(L)) |->
              (L[(4 * Len(L) - i) \div 4 + 1] \div Pow10((4 * Len(L) - i) % 4)) % 10])

LimbAt(L, k) == IF k <= Len(L) THEN L[k] ELSE 0

RECURSIVE AddCarry(_, _, _, _)
AddCarry(A, B, k, c) ==
    IF k > Len(A) /\ k > Len(B) THEN (IF c = 0 THEN <<>> ELSE <<c>>)
    ELSE <<(LimbAt(A, k) + LimbAt(B, k) + c) % 10000>>
         \o AddCarry(A, B, k + 1, (LimbAt(A, k) + LimbAt(B, k) + c) \div 10000)

NatAdd(a, b) == Digits(AddCarry(Limbs(a), Limbs(b), 1, 0))

RECURSIVE SubBorrow(_, _, _, _)
SubBorrow(A, B, k, br) ==
    IF k > Len(A) THEN <<>>
    ELSE <<(LimbAt(A, k) - LimbAt(B, k) - br + 10000) % 10000>>
         \o SubBorrow(A, B, k + 1, IF LimbAt(A, k) - LimbAt(B, k) - br < 0 THEN 1 ELSE 0)

\* a - b for a >= b
NatSub(a, b) == Digits(SubBorrow(Limbs(a), Limbs(b), 1, 0))

RECURSIVE MulCarry(_, _, _, _)
MulCarry(A, d, k, c) ==
    IF k > Len(A) THEN (IF c = 0 THEN <<>> ELSE <<c>>)
    ELSE <<(A[k] * d + c) % 10000>> \o MulCarry(A, d, k + 1, (A[k] * d + c) \div 10000)

MulDigit(a, d) == IF d = 0 THEN <<>> ELSE Digits(MulCarry(Limbs(a), d, 1, 0))

\* a * 10^k
NatShift(a, k) == IF a = <<>> THEN <<>> ELSE a \o Zeros(k)

\* A times the groups k, k+1, ... of B
RECURSIVE MulAcc(_, _, _)
MulAcc(A, B, k) ==
    IF k > Len(B) THEN <<>>
    ELSE AddCarry(MulCarry(A, B[k], 1, 0), <<0>> \o MulAcc(A, B, k + 1), 1, 0)

NatMul(a, b) == Digits(MulAcc(Limbs(a), Limbs(b), 1))

\* the largest digit d from k on with b * d <= cur
RECURSIVE FitDigit(_, _, _)
FitDigit(b, cur, k) ==
    IF k = 9 \/ NatCmp(MulDigit(b, k + 1), cur) > 0 THEN k ELSE FitDigit(b, cur, k + 1)

\* long division: quotient and remainder of the first i digits of a by b;
\* fewer digits than b has are below b
RECURSIVE DivStep(_, _, _)
DivStep(a, b, i) ==
    IF i < Len(b) THEN [q |-> <<>>, r |-> Strip(SubSeq(a, 1, i))]
    ELSE LET prev == DivStep(a, b, i - 1)
             cur  == Strip(Append(prev.r, a[i]))
             d    == FitDigit(b, cur, 0)
         IN  [q |-> Append(prev.q, d), r |-> NatSub(cur, MulDigit(b, d))]

NatDivMod(a, b) ==
    LET qr == DivStep(a, b, Len(a))
    IN  [q |-> Strip(qr.q), r |-> qr.r]

NatIsOdd(a) == a # <<>> /\ a[Len(a)] % 2 = 1

(***************************************************************************)
(* decimal.Decimal: sign, coefficient, exponent.  A zero carries no sign   *)
(* (Python's -0 compares equal to 0 and converts to a float equal to 0).   *)
(***************************************************************************)
Dec(neg, coef, exp) == [neg |-> neg /\ coef # <<>>, coef |-> coef, exp |-> exp]

DecZero == Dec(FALSE, <<>>, 0)

DecInt(n) == IF n < 0 THEN Dec(TRUE, NatDigits(-n), 0) ELSE Dec(FALSE, NatDigits(n), 0)

DecNeg(a) == Dec(~a.neg, a.coef, a.exp)

\* Decimal._fix: round the coefficient to p significant digits, ROUND_HALF_EVEN
DecRound(d, p) ==
    IF Len(d.coef) <= p THEN d
    ELSE LET n    == Len(d.coef)
             keep == Strip(SubSeq(d.coef, 1, p))
             rest == SubSeq(d.coef, p + 1, n)
             half == <<5>> \o Zeros(n - p - 1)
             c    == NatCmp(PadLeft(Strip(rest), n - p), half)
             up   == c > 0 \/ (c = 0 /\ NatIsOdd(keep))
             r    == IF up THEN NatAdd(keep, <<1>>) ELSE keep
         IN  IF Len(r) > p
             THEN Dec(d.neg, SubSeq(r, 1, p), d.exp + (n - p) + 1)
             ELSE Dec(d.neg, r, d.exp + (n - p))

\* the two coefficients over the common (smaller) exponent
Aligned(a, b) ==
    LET e == IF a.exp < b.exp THEN a.exp ELSE b.exp
    IN  [x |-> NatShift(a.coef, a.exp - e), y |-> NatShift(b.coef, b.exp - e), e |-> e]

\* Decimal.__add__
DecAdd(a, b, p) ==
    LET al == Aligned(a, b)
        c  == NatCmp(al.x, al.y)
    IN  DecRound(
          IF a.neg = b.neg THEN Dec(a.neg, NatAdd(al.x, al.y), al.e)
          ELSE IF c = 0 THEN Dec(FALSE, <<>>, al.e)
          ELSE IF c > 0 THEN Dec(a.neg, NatSub(al.x, al.y), al.e)
          ELSE Dec(b.neg, NatSub(al.y, al.x), al.e), p)

\* Decimal.__sub__
DecSub(a, b, p) == DecAdd(a, DecNeg(b), p)

\* Decimal.__mul__
DecMul(a, b, p) ==
    DecRound(Dec(a.neg # b.neg, NatMul(a.coef, b.coef), a.exp + b.exp), p)

\* an exact quotient is brought as close to the ideal exponent as possible
RECURSIVE TrimExact(_, _, _)
TrimExact(coef, exp, ideal) ==
    IF exp < ideal /\ coef # <<>> /\ coef[Len(coef)] = 0
    THEN TrimExact(SubSeq(coef, 1, Len(coef) - 1), exp + 1, ideal)
    ELSE [coef |-> coef, exp |-> exp]

\* Decimal.__truediv__ for a divisor other than zero
DecDiv(a, b, p) ==
    IF a.coef = <<>> THEN Dec(FALSE, <<>>, a.exp - b.exp)
    ELSE LET shift == Len(b.coef) - Len(a.coef) + p + 1
             exp   == a.exp - b.exp - shift
             qr    == IF shift >= 0
                      THEN NatDivMod(NatShift(a.coef, shift), b.coef)
                      ELSE NatDivMod(a.coef, NatShift(b.coef, -shift))
             last  == IF qr.q = <<>> THEN 0 ELSE qr.q[Len(qr.q)]
             t     == TrimExact(qr.q, exp, a.exp - b.exp)
         IN  IF qr.r # <<>>
             THEN DecRound(Dec(a.neg # b.neg,
                               IF last % 5 = 0 THEN NatAdd(qr.q, <<1>>) ELSE qr.q,
                               exp), p)
             ELSE DecRound(Dec(a.neg # b.neg, t.coef, t.exp), p)

\* -1, 0 or 1 as a < b, a = b, a > b (by value)
DecCmp(a, b) ==
    LET al == Aligned(a, b)
        c  == NatCmp(al.x, al.y)
    IN  IF a.neg /\ ~b.neg THEN -1
        ELSE IF ~a.neg /\ b.neg THEN 1
        ELSE IF a.neg THEN -c ELSE c

DecLt(a, b) == DecCmp(a, b) < 0

DecLe(a, b) == DecCmp(a, b) <= 0

\* the builtin max(a, b): b only when b > a
DecMax(a, b) == IF DecCmp(b, a) > 0 THEN b ELSE a

(***************************************************************************)
(* Python floats and ints.  Every float handled here has at most 15        *)
(* significant digits, so a float is identified with the shortest decimal  *)
(* that reads back to it: a Decimal record without trailing zeros.         *)
(***************************************************************************)
RECURSIVE DropTrailingZeros(_, _)
DropTrailingZeros(coef, exp) ==
    IF coef # <<>> /\ coef[Len(coef)] = 0
    THEN DropTrailingZeros(SubSeq(coef, 1, Len(coef) - 1), exp + 1)
    ELSE [coef |-> coef, exp |-> exp]

\* a double is told apart by 17 significant digits
FLOAT_DIGITS == 17

\* float(d) for a Decimal d; a longer coefficient (a context of more than
\* FLOAT_DIGITS digits) is rounded to the nearest float
ToFloat(d) ==
    IF d.coef = <<>> THEN DecZero
    ELSE LET t == DropTrailingZeros(DecRound(d, FLOAT_DIGITS).coef,
                                    DecRound(d, FLOAT_DIGITS).exp)
         IN  Dec(d.neg, t.coef, t.exp)

\* the float literal m * 10^e
Flt(m, e) == ToFloat(Dec(m < 0, NatDigits(IF m < 0 THEN -m ELSE m), e))

\* Decimal(str(x)) for a float x: repr writes an integral float as "ddd.0"
DecimalOfFloat(x) ==
    IF x.exp >= 0 THEN Dec(x.neg, NatShift(x.coef, x.exp + 1), -1)
    ELSE IF x.coef = <<>> THEN Dec(FALSE, <<>>, -1)
    ELSE x

\* Decimal(str(n)) for an int n
DecimalOfInt(n) == DecInt(n)

FloatLt(x, y) == DecCmp(x, y) < 0

FloatLe(x, y) == DecCmp(x, y) <= 0

(***************************************************************************)
(* models.py: constructor-time validation of the two input models.  The    *)
(* result is the set of fields the ValidationError names ({} = accepted).  *)
(***************************************************************************)
\* mutant: face_value declared NonNegativeFloat
PrimaryYieldInputZeroFace(kw) ==
    (IF FloatLt(kw.face_value, DecZero) THEN {"face_value"} ELSE {})
    \cup (IF FloatLe(kw.yield_rate, DecZero) THEN {"yield_rate"} ELSE {})
    \cup (IF kw.tenor <= 0 THEN {"tenor"} ELSE {})
    \cup (IF FloatLt(kw.tax_rate, DecZero) \/ FloatLt(Flt(100, 0), kw.tax_rate)
          THEN {"tax_rate"} ELSE {})

PrimaryYieldInput(kw) ==
    (IF FloatLe(kw.face_value, DecZero) THEN {"face_value"} ELSE {})
    \cup (IF FloatLe(kw.yield_rate, DecZero) THEN {"yield_rate"} ELSE {})
    \cup (IF kw.tenor <= 0 THEN {"tenor"} ELSE {})
    \cup (IF FloatLt(kw.tax_rate, DecZero) \/ FloatLt(Flt(100, 0), kw.tax_rate)
          THEN {"tax_rate"} ELSE {})

\* mutant: a sale on the maturity day is let through
validate_holding_days_gt(value, kw) ==
    kw.original_tenor > 0 /\ (value <= 0 \/ value > kw.original_tenor)

\* field_validator("holding_days"): runs after Field(gt=0) has passed and
\* sees original_tenor in info.data only when that field was itself valid
validate_holding_days(value, kw) ==
    LET tenorKnown == kw.original_tenor > 0
    IN  tenorKnown /\ (value <= 0 \/ value >= kw.original_tenor)

SecondarySaleInput(kw) ==
    (IF FloatLe(kw.face_value, DecZero) THEN {"face_value"} ELSE {})
    \cup (IF FloatLe(kw.original_yield, DecZero) THEN {"original_yield"} ELSE {})
    \cup (IF kw.original_tenor <= 0 THEN {"original_tenor"} ELSE {})
    \cup (IF kw.holding_days <= 0 \/ validate_holding_days(kw.holding_days, kw)
          THEN {"holding_days"} ELSE {})
    \cup (IF FloatLe(kw.secondary_yield, DecZero) THEN {"secondary_yield"} ELSE {})
    \cup (IF FloatLt(kw.tax_rate, DecZero) \/ FloatLt(Flt(100, 0), kw.tax_rate)
          THEN {"tax_rate"} ELSE {})

\* PrimaryYieldResult(...): PositiveFloat / NonNegativeFloat fields
PrimaryYieldResult(r) ==
    (IF FloatLe(r.purchase_price, DecZero) THEN {"purchase_price"} ELSE {})
    \cup (IF FloatLt(r.gross_return, DecZero) THEN {"gross_return"} ELSE {})
    \cup (IF FloatLt(r.tax_amount, DecZero) THEN {"tax_amount"} ELSE {})
    \cup (IF FloatLe(r.total_payout, DecZero) THEN {"total_payout"} ELSE {})

\* SecondarySaleResult(...)
SecondarySaleResult(r) ==
    (IF FloatLe(r.original_purchase_price, DecZero)
     THEN {"original_purchase_price"} ELSE {})
    \cup (IF FloatLe(r.sale_price, DecZero) THEN {"sale_price"} ELSE {})
    \cup (IF FloatLt(r.tax_amount, DecZero) THEN {"tax_amount"} ELSE {})

(***************************************************************************)
(* calculations.py.  A helper returns [ok, value] or [ok, msg]; a          *)
(* calculator returns the outcome of the call: a result, a ValueError with *)
(* its message, or the ValidationError of the result model.                *)
(***************************************************************************)
Raise(msg) == [ok |-> FALSE, msg |-> msg]

Return(v) == [ok |-> TRUE, value |-> v]

\* mutant: the sign checks only, the configured limits are not consulted
_validate_primary_signs(inputs) ==
    IF FloatLe(inputs.yield_rate, DecZero) THEN Raise("yield_rate must be positive")
    ELSE IF inputs.tenor <= 0 THEN Raise("tenor must be greater than zero")
    ELSE IF FloatLe(inputs.face_value, DecZero) THEN Raise("face_value must be positive")
    ELSE IF FloatLt(inputs.tax_rate, DecZero) \/ FloatLt(Flt(100, 0), inputs.tax_rate)
         THEN Raise("tax_rate must be between 0 and 100")
    ELSE Return(inputs)

_validate_primary_inputs(inputs) ==
    IF FloatLe(inputs.yield_rate, DecZero) THEN Raise("yield_rate must be positive")
    ELSE IF inputs.tenor <= 0 THEN Raise("tenor must be greater than zero")
    ELSE IF FloatLe(inputs.face_value, DecZero) THEN Raise("face_value must be positive")
    ELSE IF FloatLt(inputs.tax_rate, DecZero) \/ FloatLt(Flt(100, 0), inputs.tax_rate)
         THEN Raise("tax_rate must be between 0 and 100")
    ELSE IF FloatLt(inputs.face_value, Flt(MIN_T_BILL_AMOUNT, 0))
         THEN Raise("face_value below MIN_T_BILL_AMOUNT")
    ELSE IF FloatLt(Flt(MAX_T_BILL_AMOUNT, 0), inputs.face_value)
         THEN Raise("face_value above MAX_T_BILL_AMOUNT")
    ELSE IF FloatLt(Flt(MAX_YIELD_RATE, 0), inputs.yield_rate)
         THEN Raise("yield_rate above MAX_YIELD_RATE")
    ELSE IF inputs.tenor > MAX_TENOR_DAYS THEN Raise("tenor above MAX_TENOR_DAYS")
    ELSE Return(inputs)

\* mutant: a 360-day year
Denominator360(yield_rate, tenor, p) ==
    DecAdd(DecInt(1),
           DecDiv(DecMul(DecDiv(yield_rate, DecInt(100), p), tenor, p), DecInt(360), p),
           p)

\* mutant: the period alone is discounted, the yield is left out
DenominatorIgnoresYield(yield_rate, tenor, p) ==
    DecAdd(DecInt(1),
           DecDiv(DecDiv(tenor, DecInt(100), p), DecimalOfFloat(Flt(DAYS_IN_YEAR, 0)), p),
           p)

\* 1 + yield_rate / 100 * tenor / DAYS_IN_YEAR, left to right
Denominator(yield_rate, tenor, p) ==
    DecAdd(DecInt(1),
           DecDiv(DecMul(DecDiv(yield_rate, DecInt(100), p), tenor, p),
                  DecimalOfFloat(Flt(DAYS_IN_YEAR, 0)), p),
           p)

\* mutant: a price out of range is replaced by the face value, no error
PurchasePriceOrFace(face_value, purchase_price) ==
    IF DecLe(purchase_price, DecZero) \/ DecLe(face_value, purchase_price)
    THEN Return(face_value)
    ELSE Return(purchase_price)

\* lines 156-162: the result checks of the discounter
CheckedPurchasePrice(face_value, purchase_price) ==
    IF DecLe(purchase_price, DecZero) THEN Raise("purchase price must be positive")
    ELSE IF DecLe(face_value, purchase_price)
         THEN Raise("purchase price must be less than face value")
    ELSE Return(purchase_price)

\* lines 150-154: the denominator check and the division
PriceOverDenominator(face_value, denominator, p) ==
    IF DecLe(denominator, DecZero) THEN Raise("invalid denominator")
    ELSE CheckedPurchasePrice(face_value, DecDiv(face_value, denominator, p))

_calculate_purchase_price(face_value, yield_rate, tenor, p) ==
    PriceOverDenominator(face_value, Denominator(yield_rate, tenor, p), p)

_calculate_real_profit_percentage(net_return, purchase_price, p) ==
    IF DecLe(purchase_price, DecZero) THEN DecZero
    ELSE DecMul(DecDiv(net_return, purchase_price, p), DecInt(100), p)

\* line 49: gross_return = face_value - purchase_price
GrossReturn(face_value, purchase_price, p) == DecSub(face_value, purchase_price, p)

\* mutant: the rate is used as a fraction, the division by 100 is missing
PrimaryTaxNoPercent(gross_return, tax_rate, p) == DecMul(gross_return, tax_rate, p)

\* line 50: tax_amount = gross_return * (tax_rate / Decimal("100"))
PrimaryTax(gross_return, tax_rate, p) ==
    DecMul(gross_return, DecDiv(tax_rate, DecInt(100), p), p)

\* mutant: the tax is not deducted
NetReturnUntaxed(gross_return, tax_amount, p) == gross_return

\* line 51: net_return = gross_return - tax_amount
NetReturn(gross_return, tax_amount, p) == DecSub(gross_return, tax_amount, p)

\* mutant: the payout goes through the context rounding
TotalPayoutRounded(face_value) == ToFloat(DecRound(face_value, DECIMAL_PREC))

\* line 62: total_payout = float(face_value)
TotalPayout(face_value) == ToFloat(face_value)

\* lines 57-64: the result model is built (and validated) from the amounts
PrimaryResultModel(result) ==
    IF PrimaryYieldResult(result) # {}
    THEN [kind |-> "ValidationError", fields |-> PrimaryYieldResult(result)]
    ELSE result

\* lines 53-64, given net_return
PrimaryFromNet(face_value, purchase_price, gross_return, tax_amount, net_return, p) ==
    PrimaryResultModel(
        [kind                   |-> "result",
         purchase_price         |-> ToFloat(purchase_price),
         gross_return           |-> ToFloat(gross_return),
         tax_amount             |-> ToFloat(tax_amount),
         net_return             |-> ToFloat(net_return),
         total_payout           |-> TotalPayout(face_value),
         real_profit_percentage |->
             ToFloat(_calculate_real_profit_percentage(net_return, purchase_price, p))])

\* lines 51-64, given tax_amount
PrimaryFromTax(face_value, purchase_price, gross_return, tax_amount, p) ==
    PrimaryFromNet(face_value, purchase_price, gross_return, tax_amount,
                   NetReturn(gross_return, tax_amount, p), p)

\* lines 50-64, given gross_return
PrimaryFromGross(face_value, tax_rate, purchase_price, gross_return, p) ==
    PrimaryFromTax(face_value, purchase_price, gross_return,
                   PrimaryTax(gross_return, tax_rate, p), p)

\* lines 48-64, given the outcome of _calculate_purchase_price
PrimaryFromPrice(face_value, tax_rate, price, p) ==
    IF ~price.ok THEN [kind |-> "ValueError", msg |-> price.msg]
    ELSE PrimaryFromGross(face_value, tax_rate, price.value,
                          GrossReturn(face_value, price.value, p), p)

\* lines 39-64, given the Decimal conversions of the four fields
PrimaryFromDecimals(face_value, yield_rate, tenor, tax_rate, p) ==
    PrimaryFromPrice(face_value, tax_rate,
                     _calculate_purchase_price(face_value, yield_rate, tenor, p), p)

calculate_primary_yield(inputs, p) ==
    IF ~_validate_primary_inputs(inputs).ok
    THEN [kind |-> "ValueError", msg |-> _validate_primary_inputs(inputs).msg]
    ELSE PrimaryFromDecimals(DecimalOfFloat(inputs.face_value),
                             DecimalOfFloat(inputs.yield_rate),
                             DecimalOfInt(inputs.tenor),
                             DecimalOfFloat(inputs.tax_rate), p)

_validate_secondary_inputs(inputs) ==
    IF FloatLe(inputs.original_yield, DecZero) \/ FloatLe(inputs.secondary_yield, DecZero)
    THEN Raise("yields must be positive")
    ELSE IF inputs.holding_days <= 0 \/ inputs.holding_days >= inputs.original_tenor
         THEN Raise("holding_days must be between 1 and below original_tenor")
    ELSE IF FloatLe(inputs.face_value, DecZero) THEN Raise("face_value must be positive")
    ELSE IF FloatLt(inputs.tax_rate, DecZero) \/ FloatLt(Flt(100, 0), inputs.tax_rate)
         THEN Raise("tax_rate must be between 0 and 100")
    ELSE IF FloatLt(inputs.face_value, Flt(MIN_T_BILL_AMOUNT, 0))
         THEN Raise("face_value below MIN_T_BILL_AMOUNT")
    ELSE IF FloatLt(Flt(MAX_T_BILL_AMOUNT, 0), inputs.face_value)
         THEN Raise("face_value above MAX_T_BILL_AMOUNT")
    ELSE IF FloatLt(Flt(MAX_YIELD_RATE, 0), inputs.original_yield)
            \/ FloatLt(Flt(MAX_YIELD_RATE, 0), inputs.secondary_yield)
         THEN Raise("yield above MAX_YIELD_RATE")
    ELSE IF inputs.original_tenor > MAX_TENOR_DAYS THEN Raise("tenor above MAX_TENOR_DAYS")
    ELSE Return(inputs)

\* lines 341-347: the result checks of the resale discounter
CheckedSalePrice(face_value, sale_price) ==
    IF DecLe(sale_price, DecZero) THEN Raise("sale price must be positive")
    ELSE IF DecLe(face_value, sale_price)
         THEN Raise("sale price must be less than face value")
    ELSE Return(sale_price)

\* lines 335-339: the denominator check and the division
SalePriceOverDenominator(face_value, secondary_denominator, p) ==
    IF DecLe(secondary_denominator, DecZero) THEN Raise("invalid denominator")
    ELSE CheckedSalePrice(face_value, DecDiv(face_value, secondary_denominator, p))

_calculate_secondary_sale_price(face_value, secondary_yield, remaining_days, p) ==
    SalePriceOverDenominator(face_value, Denominator(secondary_yield, remaining_days, p), p)

_calculate_period_yield(net_profit, original_purchase_price, p) ==
    IF DecLe(original_purchase_price, DecZero) THEN DecZero
    ELSE DecMul(DecDiv(net_profit, original_purchase_price, p), DecInt(100), p)

\* mutant: the resale is discounted over the days held, not the days left
RemainingDaysHeld(original_tenor, holding_days, p) == holding_days

\* line 224: remaining_days = original_tenor - holding_days
RemainingDays(original_tenor, holding_days, p) == DecSub(original_tenor, holding_days, p)

\* mutant: the cost is taken minus the proceeds
GrossProfitReversed(sale_price, original_purchase_price, p) ==
    DecSub(original_purchase_price, sale_price, p)

\* line 228: gross_profit = sale_price - original_purchase_price
GrossProfit(sale_price, original_purchase_price, p) ==
    DecSub(sale_price, original_purchase_price, p)

\* mutant: the rate is used as a fraction, the division by 100 is missing
SecondaryTaxNoPercent(gross_profit, tax_rate, p) ==
    DecMax(DecZero, DecMul(gross_profit, tax_rate, p))

\* mutant: the tax is taken on the magnitude of the profit, losses included
SecondaryTaxOnMagnitude(gross_profit, tax_rate, p) ==
    DecMul(Dec(FALSE, gross_profit.coef, gross_profit.exp),
           DecDiv(tax_rate, DecInt(100), p), p)

\* line 229: tax_amount = max(Decimal("0"), gross_profit * (tax_rate / Decimal("100")))
SecondaryTax(gross_profit, tax_rate, p) ==
    DecMax(DecZero, DecMul(gross_profit, DecDiv(tax_rate, DecInt(100), p), p))

\* mutant: the tax is added instead of deducted
NetProfitPlusTax(gross_profit, tax_amount, p) == DecAdd(gross_profit, tax_amount, p)

\* line 230: net_profit = gross_profit - tax_amount
NetProfit(gross_profit, tax_amount, p) == DecSub(gross_profit, tax_amount, p)

\* lines 236-243: the result model is built (and validated) from the amounts
SecondaryResultModel(result) ==
    IF SecondarySaleResult(result) # {}
    THEN [kind |-> "ValidationError", fields |-> SecondarySaleResult(result)]
    ELSE result

\* lines 232-243, given net_profit
SecondaryFromNet(original_purchase_price, sale_price, gross_profit, tax_amount, net_profit, p) ==
    SecondaryResultModel(
        [kind                    |-> "result",
         original_purchase_price |-> ToFloat(original_purchase_price),
         sale_price              |-> ToFloat(sale_price),
         gross_profit            |-> ToFloat(gross_profit),
         tax_amount              |-> ToFloat(tax_amount),
         net_profit              |-> ToFloat(net_profit),
         period_yield            |->
             ToFloat(_calculate_period_yield(net_profit, original_purchase_price, p))])

\* lines 230-243, given tax_amount
SecondaryFromTax(original_purchase_price, sale_price, gross_profit, tax_amount, p) ==
    SecondaryFromNet(original_purchase_price, sale_price, gross_profit, tax_amount,
                     NetProfit(gross_profit, tax_amount, p), p)

\* lines 229-243, given gross_profit
SecondaryFromGross(tax_rate, original_purchase_price, sale_price, gross_profit, p) ==
    SecondaryFromTax(original_purchase_price, sale_price, gross_profit,
                     SecondaryTax(gross_profit, tax_rate, p), p)

\* lines 227-243, given the outcome of _calculate_secondary_sale_price
SecondaryFromSale(tax_rate, original_purchase_price, sale, p) ==
    IF ~sale.ok THEN [kind |-> "ValueError", msg |-> sale.msg]
    ELSE SecondaryFromGross(tax_rate, original_purchase_price, sale.value,
                            GrossProfit(sale.value, original_purchase_price, p), p)

\* lines 223-243, given the outcome of _calculate_purchase_price
SecondaryFromOriginal(face_value, original_tenor, holding_days, secondary_yield, tax_rate, original, p) ==
    IF ~original.ok THEN [kind |-> "ValueError", msg |-> original.msg]
    ELSE SecondaryFromSale(tax_rate, original.value,
             _calculate_secondary_sale_price(face_value, secondary_yield,
                 RemainingDays(original_tenor, holding_days, p), p), p)

\* lines 212-243, given the Decimal conversions of the six fields
SecondaryFromDecimals(face_value, original_yield, original_tenor, holding_days, secondary_yield, tax_rate, p) ==
    SecondaryFromOriginal(face_value, original_tenor, holding_days, secondary_yield,
        tax_rate, _calculate_purchase_price(face_value, original_yield, original_tenor, p), p)

analyze_secondary_sale(inputs, p) ==
    IF ~_validate_secondary_inputs(inputs).ok
    THEN [kind |-> "ValueError", msg |-> _validate_secondary_inputs(inputs).msg]
    ELSE SecondaryFromDecimals(DecimalOfFloat(inputs.face_value),
                               DecimalOfFloat(inputs.original_yield),
                               DecimalOfInt(inputs.original_tenor),
                               DecimalOfInt(inputs.holding_days),
                               DecimalOfFloat(inputs.secondary_yield),
                               DecimalOfFloat(inputs.tax_rate), p)

(***************************************************************************)
(* Inputs.  Floats are sampled around every limit the code tests: zero and *)
(* negative values, the minimum and maximum bill amount, a yield so small  *)
(* that yield * tenor / 36500 is below the tenth significant digit, a face *)
(* value with more than DECIMAL_PREC significant digits, and the values    *)
(* the repository's tests use.                                             *)
(***************************************************************************)
MaxFaceUnits == 1

MaxYieldSteps == 2

MaxTenorSteps == 2

\* 25000.000001: eleven significant digits
LongFace == ToFloat(Dec(FALSE, <<2, 5, 0, 0, 0, 0, 0, 0, 0, 0, 1>>, -6))

FaceValues ==
    {Flt(-1, 0), Flt(0, 0), Flt(1, 0), Flt(100000, 0), LongFace,
     Flt(MAX_T_BILL_AMOUNT, 0), Flt(MAX_T_BILL_AMOUNT * 10 + 5, -1)}
    \cup {Flt(MIN_T_BILL_AMOUNT * k, 0) : k \in 1..MaxFaceUnits}

\* 0, 0.00001, 0.1, 12.5, 25.0, ..., 100.5
YieldRates ==
    {Flt(0, 0), Flt(1, -5), Flt(1, -1), Flt(MAX_YIELD_RATE * 10 + 5, -1)}
    \cup {Flt(125 * k, -1) : k \in 1..MaxYieldSteps}

\* 0, 1, 182, 364, ..., 366
Tenors == {0, 1, MAX_TENOR_DAYS + 1} \cup {182 * k : k \in 1..MaxTenorSteps}

HoldingDays == {-10, 0, 1, 90, 181, 364}

\* -5, 0, 14.5, 20, 100, 150
TaxRates == {Flt(-5, 0), Flt(0, 0), Flt(145, -1), Flt(20, 0), Flt(100, 0), Flt(150, 0)}

PrimaryKwargs ==
    [face_value : FaceValues, yield_rate : YieldRates, tenor : Tenors,
     tax_rate : TaxRates]

SecondaryKwargs ==
    [face_value : FaceValues, original_yield : YieldRates, original_tenor : Tenors,
     holding_days : HoldingDays, secondary_yield : YieldRates, tax_rate : TaxRates]

(***************************************************************************)
(* State: one caller building an input model and calling a calculator.     *)
(*   pc   - "idle", "built" (input model constructed), "rejected" (the     *)
(*          constructor raised), "returned", "raised" (the call ended)     *)
(*   call - which calculator the input is for                              *)
(*   inp  - the keyword arguments given to the input model                 *)
(*   out  - what the constructor or the calculator produced                *)
(***************************************************************************)
VARIABLES pc, call, inp, out

(***************************************************************************)
(* State of the threads that call the calculators side by side.            *)
(*   imported - treasury_core.calculations is in sys.modules               *)
(*   prec     - the precision of each thread's decimal context             *)
(*   thread   - per thread: pc (position in the call), call, inp, out      *)
(*   frame    - the local variables of the running call: the prices        *)
(***************************************************************************)
VARIABLES imported, prec, thread, frame

(***************************************************************************)
(* State of a historical store (db_manager.py, postgres_manager.py).       *)
(*   backend - "none" before construction, then "sqlite" or "postgres"     *)
(*   table   - the rows of the table cbe_t_bills                           *)
(*   loaded  - what the last load_latest_data returned, until dropped      *)
(***************************************************************************)
VARIABLES backend, table, loaded

(***************************************************************************)
(* State of the scraper (cbe_scraper.py).                                  *)
(*   page   - the page source handed to the parser: its result sections    *)
(*   parsed - what _verify_page_structure or _parse_cbe_html produced      *)
(***************************************************************************)
VARIABLES page, parsed

(***************************************************************************)
(* State of one CbeScraper and of its Redis cache.                         *)
(*   redis_client - "unset" before construction, then "None" or "client"   *)
(*   entry        - the value stored under REDIS_CACHE_KEY, if any         *)
(*   scrape_stats - the counters of the scraper                            *)
(*   got          - the last call of get_latest_yields_async: its          *)
(*                  argument, whether it scraped, how the scrape ended,    *)
(*                  whether Redis took the write, and what it returned     *)
(*   last_live    - the last non-empty frame a scrape returned             *)
(***************************************************************************)
VARIABLES redis_client, entry, scrape_stats, got, last_live

(***************************************************************************)
(* State of the update of a store from a source.                           *)
(*   updated - the last call of fetch_and_update_data_async: its           *)
(*             force_refresh, the data the source returned, the table      *)
(*             before the call, the calls of save_data and how it ended    *)
(***************************************************************************)
VARIABLES updated

calcVars == <<pc, call, inp, out>>

threadVars == <<imported, prec, thread, frame>>

storeVars == <<backend, table, loaded>>

parserVars == <<page, parsed>>

scraperVars == <<redis_client, entry, scrape_stats, got, last_live>>

fetchVars == <<updated>>

webVars == <<parserVars, scraperVars, fetchVars>>

vars ==
    <<pc, call, inp, out, imported, prec, thread, frame, backend, table, loaded,
      page, parsed, redis_client, entry, scrape_stats, got, last_live, updated>>

NoValue == [kind |-> "none"]

\* decimal.DefaultContext.prec: the precision of a thread's fresh context
DEFAULT_PREC == 28

Threads == {"main", "worker"}

NoFrame == [price |-> NoValue, sale |-> NoValue]

IdleThread == [pc |-> "idle", call |-> "none", inp |-> NoValue, out |-> NoValue]

\* no caller has started
CallerIdle ==
    /\ pc = "idle"
    /\ call = "none"
    /\ inp = NoValue
    /\ out = NoValue

\* no thread has started and the module is not imported yet
ThreadsIdle ==
    /\ imported = FALSE
    /\ prec = [t \in Threads |-> DEFAULT_PREC]
    /\ thread = [t \in Threads |-> IdleThread]
    /\ frame = [t \in Threads |-> NoFrame]

\* no store has been constructed
StoreIdle ==
    /\ backend = "none"
    /\ table = {}
    /\ loaded = NoValue

ZeroStats ==
    [total_scrapes |-> 0, successful_scrapes |-> 0, failed_scrapes |-> 0,
     cache_hits |-> 0, cache_misses |-> 0]

\* no page has been handed to the parser and no scraper is constructed
WebIdle ==
    /\ page = <<>>
    /\ parsed = NoValue
    /\ redis_client = "unset"
    /\ entry = NoValue
    /\ scrape_stats = ZeroStats
    /\ got = NoValue
    /\ last_live = NoValue
    /\ updated = NoValue

Init ==
    /\ CallerIdle
    /\ ThreadsIdle
    /\ StoreIdle
    /\ WebIdle

\* PrimaryYieldInput(**kw)
NewPrimaryYieldInput ==
    /\ pc = "idle"
    /\ \E kw \in PrimaryKwargs :
         /\ inp' = kw
         /\ call' = "primary"
         /\ IF PrimaryYieldInput(kw) = {}
            THEN pc' = "built" /\ out' = NoValue
            ELSE /\ pc' = "rejected"
                 /\ out' = [kind |-> "ValidationError", fields |-> PrimaryYieldInput(kw)]
    /\ UNCHANGED threadVars
    /\ UNCHANGED <<storeVars, webVars>>

\* SecondarySaleInput(**kw)
NewSecondarySaleInput ==
    /\ pc = "idle"
    /\ \E kw \in SecondaryKwargs :
         /\ inp' = kw
         /\ call' = "secondary"
         /\ IF SecondarySaleInput(kw) = {}
            THEN pc' = "built" /\ out' = NoValue
            ELSE /\ pc' = "rejected"
                 /\ out' = [kind |-> "ValidationError", fields |-> SecondarySaleInput(kw)]
    /\ UNCHANGED threadVars
    /\ UNCHANGED <<storeVars, webVars>>

\* calculate_primary_yield(inputs)
CallCalculatePrimaryYield ==
    /\ pc = "built"
    /\ call = "primary"
    /\ out' = calculate_primary_yield(inp, DECIMAL_PREC)
    /\ pc' = IF out'.kind = "result" THEN "returned" ELSE "raised"
    /\ UNCHANGED <<call, inp>>
    /\ UNCHANGED threadVars
    /\ UNCHANGED <<storeVars, webVars>>

\* analyze_secondary_sale(inputs)
CallAnalyzeSecondarySale ==
    /\ pc = "built"
    /\ call = "secondary"
    /\ out' = analyze_secondary_sale(inp, DECIMAL_PREC)
    /\ pc' = IF out'.kind = "result" THEN "returned" ELSE "raised"
    /\ UNCHANGED <<call, inp>>
    /\ UNCHANGED threadVars
    /\ UNCHANGED <<storeVars, webVars>>

\* the caller drops the input and the outcome and starts over
Discard ==
    /\ pc \in {"rejected", "returned", "raised"}
    /\ pc' = "idle"
    /\ call' = "none"
    /\ inp' = NoValue
    /\ out' = NoValue
    /\ UNCHANGED threadVars
    /\ UNCHANGED <<storeVars, webVars>>

Next ==
    \/ NewPrimaryYieldInput
    \/ NewSecondarySaleInput
    \/ CallCalculatePrimaryYield
    \/ CallAnalyzeSecondarySale
    \/ Discard

Spec == Init /\ [][Next]_vars

TypeOK ==
    /\ pc \in {"idle", "built", "rejected", "returned", "raised"}
    /\ call \in {"none", "primary", "secondary"}

(***************************************************************************)
(* Threads.  app.py imports treasury_core.calculations once per process;   *)
(* line 14 of the module, getcontext().prec = 10, runs in the thread that  *)
(* imports it first and sets that thread's context only: getcontext() is   *)
(* thread-local, and every other thread computes under the default         *)
(* context.  A call advances in three steps: the validation (line 37 /     *)
(* 210), the discounter (lines 40-46 / 213-225) and the rest up to the     *)
(* return (lines 49-76 / 228-255).                                         *)
(***************************************************************************)
ThreadPrimaryInputs ==
    [face_value : {Flt(1, 0), Flt(100000, 0)}, yield_rate : {Flt(1, -5), Flt(25, 0)},
     tenor : {1}, tax_rate : {Flt(20, 0)}]

ThreadSecondaryInputs ==
    [face_value : {Flt(1, 0), Flt(100000, 0)}, original_yield : {Flt(25, 0)},
     original_tenor : {364}, holding_days : {363},
     secondary_yield : {Flt(1, -5), Flt(35, 0)}, tax_rate : {Flt(20, 0)}]

\* mutant: the prices are kept in one module-level slot
SlotShared(t) == "main"

\* the frame of thread t's call holds its local variables
Slot(t) == t

\* mutant: the discounter is entered without waiting for the validation
MayDiscountEarly(th) == th.pc \in {"called", "validated"}

\* line 46 / 221 is reached only after line 37 / 210 has returned
MayDiscount(th) == th.pc = "validated"

\* from treasury_core.calculations import ...: the first import runs line 14
ImportCalculations(t) ==
    /\ ~imported
    /\ imported' = TRUE
    /\ prec' = [prec EXCEPT ![t] = DECIMAL_PREC]
    /\ UNCHANGED <<thread, frame>>
    /\ UNCHANGED calcVars
    /\ UNCHANGED <<storeVars, webVars>>

\* the thread builds an input model and enters calculate_primary_yield
ThreadCallPrimary(t) ==
    /\ imported
    /\ thread[t].pc = "idle"
    /\ \E kw \in ThreadPrimaryInputs :
         /\ PrimaryYieldInput(kw) = {}
         /\ thread' = [thread EXCEPT ![t] =
                [pc |-> "called", call |-> "primary", inp |-> kw, out |-> NoValue]]
    /\ UNCHANGED <<imported, prec, frame>>
    /\ UNCHANGED calcVars
    /\ UNCHANGED <<storeVars, webVars>>

\* the thread builds an input model and enters analyze_secondary_sale
ThreadCallSecondary(t) ==
    /\ imported
    /\ thread[t].pc = "idle"
    /\ \E kw \in ThreadSecondaryInputs :
         /\ SecondarySaleInput(kw) = {}
         /\ thread' = [thread EXCEPT ![t] =
                [pc |-> "called", call |-> "secondary", inp |-> kw, out |-> NoValue]]
    /\ UNCHANGED <<imported, prec, frame>>
    /\ UNCHANGED calcVars
    /\ UNCHANGED <<storeVars, webVars>>

ValidationOf(th) ==
    IF th.call = "primary" THEN _validate_primary_inputs(th.inp)
    ELSE _validate_secondary_inputs(th.inp)

\* line 37 / 210: validated_inputs = _validate_..._inputs(inputs)
Validate(t) ==
    /\ thread[t].pc = "called"
    /\ thread' = [thread EXCEPT ![t] =
           IF ValidationOf(thread[t]).ok
           THEN [thread[t] EXCEPT !.pc = "validated"]
           ELSE [thread[t] EXCEPT !.pc = "raised",
                     !.out = [kind |-> "ValueError", msg |-> ValidationOf(thread[t]).msg]]]
    /\ UNCHANGED <<imported, prec, frame>>
    /\ UNCHANGED calcVars
    /\ UNCHANGED <<storeVars, webVars>>

\* lines 40-46: the purchase price under the thread's context
PurchasePriceOf(kw, yield_rate, tenor, p) ==
    _calculate_purchase_price(DecimalOfFloat(kw.face_value), DecimalOfFloat(yield_rate),
                              DecimalOfInt(tenor), p)

\* lines 224-225: the sale price under the thread's context
SalePriceOf(kw, p) ==
    _calculate_secondary_sale_price(DecimalOfFloat(kw.face_value),
        DecimalOfFloat(kw.secondary_yield),
        RemainingDays(DecimalOfInt(kw.original_tenor), DecimalOfInt(kw.holding_days), p), p)

\* the thread and its frame after the discounter returned price (and sale)
Discounted(t, price, sale) ==
    IF ~price.ok
    THEN /\ thread' = [thread EXCEPT ![t].pc = "raised",
                           ![t].out = [kind |-> "ValueError", msg |-> price.msg]]
         /\ UNCHANGED frame
    ELSE IF ~sale.ok
    THEN /\ thread' = [thread EXCEPT ![t].pc = "raised",
                           ![t].out = [kind |-> "ValueError", msg |-> sale.msg]]
         /\ UNCHANGED frame
    ELSE /\ thread' = [thread EXCEPT ![t].pc = "priced"]
         /\ frame' = [frame EXCEPT ![Slot(t)] = [price |-> price.value, sale |-> sale.value]]

\* lines 40-46 of calculate_primary_yield
DiscountPrimary(t) ==
    /\ MayDiscount(thread[t])
    /\ thread[t].call = "primary"
    /\ Discounted(t, PurchasePriceOf(thread[t].inp, thread[t].inp.yield_rate,
                                     thread[t].inp.tenor, prec[t]),
                  Return(NoValue))
    /\ UNCHANGED <<imported, prec>>
    /\ UNCHANGED calcVars
    /\ UNCHANGED <<storeVars, webVars>>

\* lines 213-225 of analyze_secondary_sale
DiscountSecondary(t) ==
    /\ MayDiscount(thread[t])
    /\ thread[t].call = "secondary"
    /\ Discounted(t, PurchasePriceOf(thread[t].inp, thread[t].inp.original_yield,
                                     thread[t].inp.original_tenor, prec[t]),
                  SalePriceOf(thread[t].inp, prec[t]))
    /\ UNCHANGED <<imported, prec>>
    /\ UNCHANGED calcVars
    /\ UNCHANGED <<storeVars, webVars>>

\* lines 49-76 / 228-255, from the prices in the frame
Finished(th, fr, p) ==
    IF th.call = "primary"
    THEN PrimaryFromPrice(DecimalOfFloat(th.inp.face_value),
                          DecimalOfFloat(th.inp.tax_rate), Return(fr.price), p)
    ELSE SecondaryFromSale(DecimalOfFloat(th.inp.tax_rate), fr.price, Return(fr.sale), p)

\* lines 49-76 / 228-255: the amounts, the result model, the return
Finish(t) ==
    /\ thread[t].pc = "priced"
    /\ thread' = [thread EXCEPT
           ![t].out = Finished(thread[t], frame[Slot(t)], prec[t]),
           ![t].pc = IF Finished(thread[t], frame[Slot(t)], prec[t]).kind = "result"
                     THEN "returned" ELSE "raised"]
    /\ frame' = [frame EXCEPT ![Slot(t)] = NoFrame]
    /\ UNCHANGED <<imported, prec>>
    /\ UNCHANGED calcVars
    /\ UNCHANGED <<storeVars, webVars>>

\* the caller has taken the outcome; the thread is free for the next call
ThreadDone(t) ==
    /\ thread[t].pc \in {"returned", "raised"}
    /\ thread' = [thread EXCEPT ![t] = IdleThread]
    /\ UNCHANGED <<imported, prec, frame>>
    /\ UNCHANGED calcVars
    /\ UNCHANGED <<storeVars, webVars>>

ThreadNext ==
    \E t \in Threads :
        \/ ImportCalculations(t)
        \/ ThreadCallPrimary(t)
        \/ ThreadCallSecondary(t)
        \/ Validate(t)
        \/ DiscountPrimary(t)
        \/ DiscountSecondary(t)
        \/ Finish(t)
        \/ ThreadDone(t)

SpecThreads == Init /\ [][ThreadNext]_vars

(***************************************************************************)
(* The historical store.  Both implementations keep the table cbe_t_bills  *)
(* with the primary key (tenor, session_date); save_data writes the rows   *)
(* of a frame one by one, replacing the row that has the same key, and     *)
(* load_latest_data selects by tenor and scrape_date.  Scrape dates are    *)
(* numbered in chronological order.                                        *)
(***************************************************************************)
MaxScrapeDate == 2

MaxFrameRows == 2

StoreTenors == {91, 364}

StoreYields == {25, 27}

\* a string is the sequence of its characters; session dates are written
\* DD/MM/YYYY (constants.py DATE_FORMAT): 05/02/2025 and 12/01/2025, the
\* later date being the smaller string
Chars == {"-", "/", "0", "1", "2", "3", "4", "5", "6", "7", "8", "9"}

SessionDates ==
    {<<"0", "5", "/", "0", "2", "/", "2", "0", "2", "5">>,
     <<"1", "2", "/", "0", "1", "/", "2", "0", "2", "5">>}

ScrapeDates == 1..MaxScrapeDate

StoreRows ==
    [tenor : StoreTenors, yield : StoreYields, session_date : SessionDates,
     scrape_date : ScrapeDates]

\* the frames handed to save_data: up to MaxFrameRows rows, in order
RECURSIVE FramesOf(_)
FramesOf(n) ==
    IF n = 0 THEN {<<>>}
    ELSE FramesOf(n - 1) \cup {Append(f, r) : f \in [1..(n - 1) -> StoreRows], r \in StoreRows}

\* "البيانات الأولية", the marker returned for a store without rows
INITIAL_DATA_MARKER == "initial data"

SameKey(r, s) == r.tenor = s.tenor /\ r.session_date = s.session_date

\* INSERT OR REPLACE / INSERT ... ON CONFLICT (tenor, session_date) DO UPDATE
Upsert(rows, row) == {r \in rows : ~SameKey(r, row)} \cup {row}

\* the rows of the frame from the i-th on, written in order
RECURSIVE UpsertFrom(_, _, _)
UpsertFrom(rows, df, i) ==
    IF i > Len(df) THEN rows ELSE UpsertFrom(Upsert(rows, df[i]), df, i + 1)

TenorsIn(rows) == {r.tenor : r \in rows}

\* MAX(scrape_date) over the rows
MaxScrape(rows) == CHOOSE d \in {r.scrape_date : r \in rows} : \A r \in rows : r.scrape_date <= d

RowsOfTenor(rows, t) == {r \in rows : r.tenor = t}

\* the rows of tenor t whose scrape_date is the greatest of that tenor
LatestOfTenor(rows, t) ==
    {r \in RowsOfTenor(rows, t) : r.scrape_date = MaxScrape(RowsOfTenor(rows, t))}

\* the selected columns: tenor, yield, session_date
Selected(r) == [tenor |-> r.tenor, yield |-> r.yield, session_date |-> r.session_date]

\* the value returned for the selected rows
LoadResult(selection, rows) ==
    IF selection = {}
    THEN [kind |-> "frame", rows |-> {}, info |-> INITIAL_DATA_MARKER]
    ELSE [kind |-> "frame", rows |-> {Selected(r) : r \in selection},
          info |-> MaxScrape(rows)]

\* the code point of a character
CharCode(c) ==
    CASE c = "-" -> 45 [] c = "/" -> 47 [] c = "0" -> 48 [] c = "1" -> 49 [] c = "2" -> 50
      [] c = "3" -> 51 [] c = "4" -> 52 [] c = "5" -> 53 [] c = "6" -> 54
      [] c = "7" -> 55 [] c = "8" -> 56 [] OTHER -> 57

\* SUBSTR(s, start, length) of SQL, positions counted from 1
SUBSTR(s, start, length) == SubSeq(s, start, start + length - 1)

\* a < b as strings: by the first character that differs, a prefix first
RECURSIVE StringLess(_, _)
StringLess(a, b) ==
    IF b = <<>> THEN FALSE
    ELSE IF a = <<>> THEN TRUE
    ELSE IF Head(a) # Head(b) THEN CharCode(Head(a)) < CharCode(Head(b))
    ELSE StringLess(Tail(a), Tail(b))

\* the number written by a string of digits
RECURSIVE ParseNat(_)
ParseNat(s) ==
    IF s = <<>> THEN 0
    ELSE 10 * ParseNat(SubSeq(s, 1, Len(s) - 1)) + (CharCode(s[Len(s)]) - CharCode("0"))

\* to_date(s, 'DD/MM/YYYY'), as a number that grows with the date
to_date(s) ==
    10000 * ParseNat(SUBSTR(s, 7, 4)) + 100 * ParseNat(SUBSTR(s, 4, 2))
        + ParseNat(SUBSTR(s, 1, 2))

\* mutant: the rows are ordered by the session date as a string
WholeStringKey(s) == <<s, <<>>, <<>>>>

\* ORDER BY SUBSTR(s, 7, 4) DESC, SUBSTR(s, 4, 2) DESC, SUBSTR(s, 1, 2) DESC
SQLiteOrderKey(s) == <<SUBSTR(s, 7, 4), SUBSTR(s, 4, 2), SUBSTR(s, 1, 2)>>

\* k sorts before l or with it, column by column, as strings
KeyLe(k, l) ==
    \/ StringLess(k[1], l[1])
    \/ k[1] = l[1] /\ StringLess(k[2], l[2])
    \/ k[1] = l[1] /\ k[2] = l[2] /\ ~StringLess(l[3], k[3])

\* the value returned for the rows that come first: fetchone()[0], or None
SessionDateResult(firsts) ==
    IF firsts = {} THEN [kind |-> "session_date", value |-> "None"]
    ELSE [kind |-> "session_date", value |-> (CHOOSE r \in firsts : TRUE).session_date]

\* SQLiteDBManager(db_filename) on a new file: _init_db creates the table
NewSQLiteDBManager ==
    /\ backend = "none"
    /\ backend' = "sqlite"
    /\ table' = {}
    /\ UNCHANGED loaded
    /\ UNCHANGED <<calcVars, threadVars, webVars>>

\* PostgresDBManager() on a new database: _init_db creates the table
NewPostgresDBManager ==
    /\ backend = "none"
    /\ backend' = "postgres"
    /\ table' = {}
    /\ UNCHANGED loaded
    /\ UNCHANGED <<calcVars, threadVars, webVars>>

\* save_data(df), the same upsert in both implementations
SaveData ==
    /\ backend # "none"
    /\ loaded = NoValue
    /\ \E df \in FramesOf(MaxFrameRows) : table' = UpsertFrom(table, df, 1)
    /\ UNCHANGED <<backend, loaded>>
    /\ UNCHANGED <<calcVars, threadVars, webVars>>

\* SQLiteDBManager.load_latest_data: ROW_NUMBER() OVER (PARTITION BY tenor
\* ORDER BY scrape_date DESC) = 1 keeps one row of each tenor; among rows
\* of equal scrape_date the engine is free to number any of them first
SQLiteLoadLatestData ==
    /\ backend = "sqlite"
    /\ loaded = NoValue
    /\ \E first \in [TenorsIn(table) -> table] :
          /\ \A t \in TenorsIn(table) : first[t] \in LatestOfTenor(table, t)
          /\ loaded' = LoadResult({first[t] : t \in TenorsIn(table)}, table)
    /\ UNCHANGED <<backend, table>>
    /\ UNCHANGED <<calcVars, threadVars, webVars>>

\* PostgresDBManager.load_latest_data: WHERE t.scrape_date = (SELECT
\* MAX(t2.scrape_date) ... WHERE t2.tenor = t.tenor) keeps every such row
PostgresLoadLatestData ==
    /\ backend = "postgres"
    /\ loaded = NoValue
    /\ loaded' = LoadResult({r \in table : r \in LatestOfTenor(table, r.tenor)}, table)
    /\ UNCHANGED <<backend, table>>
    /\ UNCHANGED <<calcVars, threadVars, webVars>>

\* SQLiteDBManager.get_latest_session_date
SQLiteGetLatestSessionDate ==
    /\ backend = "sqlite"
    /\ loaded = NoValue
    /\ loaded' = SessionDateResult(
           {r \in table : \A q \in table :
                KeyLe(SQLiteOrderKey(q.session_date), SQLiteOrderKey(r.session_date))})
    /\ UNCHANGED <<backend, table>>
    /\ UNCHANGED <<calcVars, threadVars, webVars>>

\* PostgresDBManager.get_latest_session_date
PostgresGetLatestSessionDate ==
    /\ backend = "postgres"
    /\ loaded = NoValue
    /\ loaded' = SessionDateResult(
           {r \in table : \A q \in table : to_date(q.session_date) <= to_date(r.session_date)})
    /\ UNCHANGED <<backend, table>>
    /\ UNCHANGED <<calcVars, threadVars, webVars>>

\* the caller drops the returned frame
DropFrame ==
    /\ loaded # NoValue
    /\ loaded' = NoValue
    /\ UNCHANGED <<backend, table>>
    /\ UNCHANGED <<calcVars, threadVars, webVars>>

StoreNext ==
    \/ NewSQLiteDBManager
    \/ NewPostgresDBManager
    \/ SaveData
    \/ SQLiteLoadLatestData
    \/ PostgresLoadLatestData
    \/ SQLiteGetLatestSessionDate
    \/ PostgresGetLatestSessionDate
    \/ DropFrame

SpecStore == Init /\ [][StoreNext]_vars

(***************************************************************************)
(* The parser of the scraper (cbe_scraper.py).  A page is the sequence of  *)
(* its result sections, in document order.  A section is what follows one  *)
(* h2 header holding RESULTS_MARKER:                                       *)
(*   dates_row - its dates table has the row SESSION_DATE_MARKER           *)
(*   bids      - it has its own paragraph holding ACCEPTED_BIDS_KEYWORD,   *)
(*               followed by its yields table                              *)
(*   yield_row - that yields table has the row YIELD_ANCHOR_TEXT           *)
(*   columns   - per tenor column: the header of the dates table (tenor),  *)
(*               the cell of the session date row and the cell of the      *)
(*               yield row                                                 *)
(***************************************************************************)
MaxSections == 2

MaxColumns == 1

\* the Arabic marker texts, named by their meaning
RESULTS_MARKER == "results"

SESSION_DATE_MARKER == "session date"

YIELD_ANCHOR_TEXT == "weighted average yield"

ACCEPTED_BIDS_KEYWORD == "accepted"

ESSENTIAL_TEXT_MARKERS ==
    <<RESULTS_MARKER, SESSION_DATE_MARKER, YIELD_ANCHOR_TEXT, ACCEPTED_BIDS_KEYWORD>>

\* an empty cell of the yield row: float("nan")
NaN == 0 - 1

\* pandas.NaT: the value of a session date that does not parse
NaT == 0

\* a cell of the session date row that is no date
NotADate == <<"-">>

Digit(c) == c \in Chars \ {"-", "/"}

\* datetime.strptime(s, "%d/%m/%Y") succeeds (days are not checked against
\* the length of the month)
IsDate(s) ==
    /\ Len(s) = 10
    /\ s[3] = "/"
    /\ s[6] = "/"
    /\ \A i \in {1, 2, 4, 5, 7, 8, 9, 10} : Digit(s[i])
    /\ ParseNat(SUBSTR(s, 1, 2)) \in 1..31
    /\ ParseNat(SUBSTR(s, 4, 2)) \in 1..12

\* pd.to_datetime(..., format=DATE_FORMAT, errors="coerce") of one cell
to_datetime(s) == IF IsDate(s) THEN to_date(s) ELSE NaT

PageColumns ==
    [tenor : StoreTenors, session_date : SessionDates \cup {NotADate},
     yield : StoreYields \cup {NaN}]

RECURSIVE DistinctTenors(_)
DistinctTenors(cols) ==
    IF Len(cols) <= 1 THEN TRUE
    ELSE /\ \A i \in 2..Len(cols) : cols[i].tenor # cols[1].tenor
         /\ DistinctTenors(Tail(cols))

ColumnLists ==
    {cols \in UNION {[1..n -> PageColumns] : n \in 1..MaxColumns} :
        DistinctTenors(cols)}

Sections ==
    {s \in [dates_row : BOOLEAN, bids : BOOLEAN, yield_row : BOOLEAN,
            columns : ColumnLists] : s.yield_row => s.bids}

\* the pages of n sections
PagesOf(n) == [1..n -> Sections]

\* marker in page_source, for the page source of these sections
Contains(pg, marker) ==
    CASE marker = RESULTS_MARKER -> Len(pg) > 0
      [] marker = SESSION_DATE_MARKER -> \E i \in 1..Len(pg) : pg[i].dates_row
      [] marker = ACCEPTED_BIDS_KEYWORD -> \E i \in 1..Len(pg) : pg[i].bids
      [] OTHER -> \E i \in 1..Len(pg) : pg[i].yield_row

\* a mutant of missing_markers: stops at the first missing marker
first_missing_marker(pg) ==
    LET absent == {i \in DOMAIN ESSENTIAL_TEXT_MARKERS :
                      ~Contains(pg, ESSENTIAL_TEXT_MARKERS[i])}
    IN  IF absent = {} THEN <<>>
        ELSE <<ESSENTIAL_TEXT_MARKERS[CHOOSE i \in absent : \A j \in absent : i <= j]>>

\* CbeScraper._verify_page_structure: the markers missing, in the order of
\* ESSENTIAL_TEXT_MARKERS
missing_markers(pg) ==
    SelectSeq(ESSENTIAL_TEXT_MARKERS, LAMBDA marker : ~Contains(pg, marker))

_verify_page_structure(pg) ==
    IF missing_markers(pg) # <<>>
    THEN [kind |-> "RuntimeError", missing |-> missing_markers(pg)]
    ELSE [kind |-> "passed"]

\* a mutant of accepted_bids_header: searches section i only
own_bids_header(pg, i) == IF pg[i].bids THEN i ELSE 0

\* header.find_next(<p or strong holding ACCEPTED_BIDS_KEYWORD>): the first
\* such paragraph after header i in the whole document, 0 when there is none
RECURSIVE accepted_bids_header(_, _)
accepted_bids_header(pg, i) ==
    IF i > Len(pg) THEN 0
    ELSE IF pg[i].bids THEN i
    ELSE accepted_bids_header(pg, i + 1)

\* CbeScraper._parse_section for header i: the rows of section_df, <<>> for
\* None
ParseSectionWith(pg, i, j) ==
    IF ~pg[i].dates_row \/ j = 0 THEN <<>>
    ELSE IF Len(pg[j].columns) # Len(pg[i].columns) \/ ~pg[j].yield_row THEN <<>>
    ELSE LET section_df ==
                 [k \in 1..Len(pg[i].columns) |->
                     [tenor |-> pg[i].columns[k].tenor,
                      session_date |-> pg[i].columns[k].session_date,
                      yield |-> pg[j].columns[k].yield]]
         IN  IF \E k \in 1..Len(section_df) : section_df[k].yield = NaN
             THEN <<>>
             ELSE section_df

_parse_section(pg, i) == ParseSectionWith(pg, i, accepted_bids_header(pg, i))

\* pd.concat of the section frames, from header i on
RECURSIVE ConcatFrom(_, _)
ConcatFrom(pg, i) ==
    IF i > Len(pg) THEN <<>>
    ELSE _parse_section(pg, i) \o ConcatFrom(pg, i + 1)

\* CbeScraper._process_dates: adds session_date_dt and scrape_date (the
\* instant of the session date's midnight) and drops the rows without
WithDates(r) ==
    [tenor |-> r.tenor, session_date |-> r.session_date, yield |-> r.yield,
     session_date_dt |-> to_datetime(r.session_date),
     scrape_date |-> to_datetime(r.session_date)]

_process_dates(df) ==
    SelectSeq([k \in 1..Len(df) |-> WithDates(df[k])],
              LAMBDA r : r.scrape_date # NaT)

FrameTenors(df) == {df[k].tenor : k \in 1..Len(df)}

\* a mutant of NewestOf: the sort ascending
OldestOf(df, t) ==
    {df[k] : k \in {m \in 1..Len(df) :
        /\ df[m].tenor = t
        /\ \A n \in 1..Len(df) :
             df[n].tenor = t => df[m].session_date_dt <= df[n].session_date_dt}}

\* the rows that sort_values("session_date_dt", ascending=False) may put
\* first among those of one tenor: the sort is not stable
NewestOf(df, t) ==
    {df[k] : k \in {m \in 1..Len(df) :
        /\ df[m].tenor = t
        /\ \A n \in 1..Len(df) :
             df[n].tenor = t => df[n].session_date_dt <= df[m].session_date_dt}}

\* sort_values(by=tenor) of rows with distinct tenors
RECURSIVE SortByTenor(_)
SortByTenor(rows) ==
    IF rows = {} THEN <<>>
    ELSE LET r == CHOOSE x \in rows : \A y \in rows : x.tenor <= y.tenor
         IN  <<r>> \o SortByTenor(rows \ {r})

\* df.drop(columns=["session_date_dt"]) of one row
DropDt(r) == [c \in (DOMAIN r) \ {"session_date_dt"} |-> r[c]]

FRAME_COLUMNS == {"tenor", "session_date", "yield", "scrape_date"}

\* CbeScraper._clean_and_sort_data: the frames it may return
_clean_and_sort_data(df) ==
    {[kind |-> "frame", columns |-> FRAME_COLUMNS,
      rows |-> SortByTenor({DropDt(f[t]) : t \in FrameTenors(df)})] :
        f \in {g \in [FrameTenors(df) -> {df[k] : k \in 1..Len(df)}] :
                  \A t \in FrameTenors(df) : g[t] \in NewestOf(df, t)}}

None == [kind |-> "None"]

\* CbeScraper._parse_cbe_html: the values it may return
_parse_cbe_html(pg) ==
    IF Len(pg) = 0 \/ ConcatFrom(pg, 1) = <<>> THEN {None}
    ELSE _clean_and_sort_data(_process_dates(ConcatFrom(pg, 1)))

\* a caller hands a page source to _verify_page_structure
VerifyPageStructure ==
    /\ parsed = NoValue
    /\ \E n \in 0..MaxSections : \E pg \in PagesOf(n) :
         /\ page' = pg
         /\ parsed' = _verify_page_structure(pg)
    /\ UNCHANGED <<calcVars, threadVars, storeVars, scraperVars, fetchVars>>

\* a caller hands a page source to _parse_cbe_html
ParseCbeHtml ==
    /\ parsed = NoValue
    /\ \E n \in 0..MaxSections : \E pg \in PagesOf(n) :
         /\ page' = pg
         /\ parsed' \in _parse_cbe_html(pg)
    /\ UNCHANGED <<calcVars, threadVars, storeVars, scraperVars, fetchVars>>

\* the caller drops the result
DropParsed ==
    /\ parsed # NoValue
    /\ page' = <<>>
    /\ parsed' = NoValue
    /\ UNCHANGED <<calcVars, threadVars, storeVars, scraperVars, fetchVars>>

ParserNext ==
    \/ VerifyPageStructure
    \/ ParseCbeHtml
    \/ DropParsed

SpecParser == Init /\ [][ParserNext]_vars

(***************************************************************************)
(* One CbeScraper with its Redis cache (cbe_scraper.py).                   *)
(***************************************************************************)
MaxCalls == 3

\* DataFrame.empty
Empty(df) == df.rows = <<>>

\* date_format="iso": the text of an instant
IsoOf(instant) == <<"iso", instant>>

\* df.to_json(orient="records", lines=True, date_format="iso")
to_json(df) ==
    [kind |-> "json",
     lines |-> [k \in 1..Len(df.rows) |->
                   [df.rows[k] EXCEPT !.scrape_date = IsoOf(@)]]]

\* pd.read_json(..., lines=True), then scrape_date through pd.to_datetime
read_json(text) ==
    [kind |-> "frame",
     columns |-> UNION {DOMAIN text.lines[k] : k \in 1..Len(text.lines)},
     rows |-> [k \in 1..Len(text.lines) |->
                  [text.lines[k] EXCEPT !.scrape_date = @[2]]]]

\* what the browser session and the two checks of the page source end in:
\* an exception of Playwright, the RuntimeError of _verify_page_structure,
\* or a result of _parse_cbe_html
OutcomesOf(pg) ==
    IF _verify_page_structure(pg).kind = "RuntimeError"
    THEN {_verify_page_structure(pg)}
    ELSE _parse_cbe_html(pg)

ScrapeOutcomes ==
    {[kind |-> "PlaywrightError"]}
        \cup UNION {UNION {OutcomesOf(pg) : pg \in PagesOf(n)} : n \in 0..MaxSections}

Raised(outcome) == outcome.kind \in {"PlaywrightError", "RuntimeError"}

NonEmpty(result) == result.kind = "frame" /\ ~Empty(result)

\* CbeScraper._scrape_from_web_async: the counters after the attempt
StatsAfter(stats, outcome) ==
    IF Raised(outcome)
    THEN [stats EXCEPT !.failed_scrapes = @ + 1]
    ELSE [stats EXCEPT
             !.total_scrapes = @ + 1,
             !.successful_scrapes = IF NonEmpty(outcome) THEN @ + 1 ELSE @,
             !.failed_scrapes = IF NonEmpty(outcome) THEN @ ELSE @ + 1]

\* CbeScraper._scrape_from_web_async: the value returned
LiveData(outcome) == IF Raised(outcome) THEN None ELSE outcome

\* CbeScraper._get_cached_data, read_ok telling whether Redis answers
_get_cached_data(read_ok) ==
    IF read_ok /\ entry # NoValue THEN read_json(entry) ELSE None

\* a mutant of _cache_data: caches whatever the scrape returned
CacheAnything(live_data, write_ok) ==
    IF ~write_ok THEN entry
    ELSE IF live_data.kind = "frame" THEN to_json(live_data) ELSE NoValue

\* CbeScraper._cache_data after the guard of get_latest_yields_async,
\* write_ok telling whether Redis accepts the write
CacheAfter(live_data, write_ok) ==
    IF redis_client = "client" /\ NonEmpty(live_data) /\ write_ok
    THEN to_json(live_data)
    ELSE entry

Calls ==
    scrape_stats.cache_hits + scrape_stats.successful_scrapes
        + scrape_stats.failed_scrapes

\* CbeScraper(): AIVEN_REDIS_URI is set and Redis answers the ping, or not
NewCbeScraper ==
    /\ redis_client = "unset"
    /\ redis_client' \in {"None", "client"}
    /\ UNCHANGED <<entry, scrape_stats, got, last_live>>
    /\ UNCHANGED <<calcVars, threadVars, storeVars, parserVars, fetchVars>>

\* the call returns the cached frame
CacheHit(force_refresh, cached) ==
    /\ scrape_stats' = [scrape_stats EXCEPT !.cache_hits = @ + 1]
    /\ got' = [force_refresh |-> force_refresh, scraped |-> FALSE,
               live |-> NoValue, value |-> cached]
    /\ UNCHANGED <<entry, last_live>>

\* the call scrapes, caches and returns the live data
Scrape(force_refresh, missed, outcome, write_ok) ==
    /\ scrape_stats' =
           StatsAfter(IF missed
                      THEN [scrape_stats EXCEPT !.cache_misses = @ + 1]
                      ELSE scrape_stats, outcome)
    /\ entry' = CacheAfter(LiveData(outcome), write_ok)
    /\ got' = [force_refresh |-> force_refresh, scraped |-> TRUE,
               live |-> outcome, write_ok |-> write_ok,
               value |-> LiveData(outcome)]
    /\ last_live' = IF NonEmpty(outcome) THEN outcome ELSE last_live

\* CbeScraper.get_latest_yields_async(force_refresh)
GetLatestYieldsAsync ==
    /\ redis_client # "unset"
    /\ Calls < MaxCalls
    /\ \E force_refresh \in BOOLEAN, read_ok \in BOOLEAN, write_ok \in BOOLEAN :
         \E outcome \in ScrapeOutcomes :
           LET lookup == ~force_refresh /\ redis_client = "client"
               cached == IF lookup THEN _get_cached_data(read_ok) ELSE None
           IN  IF cached # None
               THEN CacheHit(force_refresh, cached)
               ELSE Scrape(force_refresh, lookup, outcome, write_ok)
    /\ UNCHANGED redis_client
    /\ UNCHANGED <<calcVars, threadVars, storeVars, parserVars, fetchVars>>

\* CbeScraper.clear_cache
ClearCache ==
    /\ redis_client = "client"
    /\ \E delete_ok \in BOOLEAN : entry' = IF delete_ok THEN NoValue ELSE entry
    /\ UNCHANGED <<redis_client, scrape_stats, got, last_live>>
    /\ UNCHANGED <<calcVars, threadVars, storeVars, parserVars, fetchVars>>

\* Redis drops the entry when its time to live (CACHE_TTL_SECONDS) is over
Expire ==
    /\ entry # NoValue
    /\ entry' = NoValue
    /\ UNCHANGED <<redis_client, scrape_stats, got, last_live>>
    /\ UNCHANGED <<calcVars, threadVars, storeVars, parserVars, fetchVars>>

ScraperNext ==
    \/ NewCbeScraper
    \/ GetLatestYieldsAsync
    \/ ClearCache
    \/ Expire

SpecScraper == Init /\ [][ScraperNext]_vars

(***************************************************************************)
(* fetch_and_update_data_async (cbe_scraper.py) with a CbeScraper as the   *)
(* source and either store.                                                *)
(***************************************************************************)
\* what data_source.get_latest_yields_async may return
SourceResults == {LiveData(outcome) : outcome \in ScrapeOutcomes}

\* data_store.get_latest_session_date(): the session date, <<>> for None
get_latest_session_date(be, rows) ==
    LET firsts ==
            IF be = "sqlite"
            THEN {r \in rows : \A q \in rows :
                     KeyLe(SQLiteOrderKey(q.session_date), SQLiteOrderKey(r.session_date))}
            ELSE {r \in rows : \A q \in rows :
                     to_date(q.session_date) <= to_date(r.session_date)}
    IN  IF firsts = {} THEN <<>> ELSE (CHOOSE r \in firsts : TRUE).session_date

\* latest_data[session_date].iloc[0]
live_latest_date_str(latest_data) == latest_data.rows[1].session_date

\* a mutant of MustSave: force_refresh is ignored
MustSaveUnforced(force_refresh, db_session_date_str, live) ==
    db_session_date_str = <<>> \/ live # db_session_date_str

\* the condition under which the data is saved
MustSave(force_refresh, db_session_date_str, live) ==
    force_refresh \/ db_session_date_str = <<>> \/ live # db_session_date_str

\* data_store.save_data(df), write_ok telling whether the database takes the
\* write: SQLiteDBManager logs a failure and returns, PostgresDBManager
\* raises it again
SaveOutcome(be, write_ok) ==
    IF write_ok \/ be = "sqlite" THEN "True" ELSE "psycopg2.Error"

TableAfterSave(rows, df, write_ok) ==
    IF write_ok THEN UpsertFrom(rows, df.rows, 1) ELSE rows

\* how the call ends and what it leaves in the table
Update(force_refresh, latest_data, save_calls, returned) ==
    updated' = [force_refresh |-> force_refresh, latest_data |-> latest_data,
                before |-> table, save_calls |-> save_calls,
                returned |-> returned]

\* the body of fetch_and_update_data_async once the source has answered
FetchWith(force_refresh, latest_data, db_session_date_str, write_ok) ==
    IF NonEmpty(latest_data)
    THEN IF MustSave(force_refresh, db_session_date_str,
                     live_latest_date_str(latest_data))
         THEN /\ table' = TableAfterSave(table, latest_data, write_ok)
              /\ Update(force_refresh, latest_data, 1, SaveOutcome(backend, write_ok))
         ELSE /\ table' = table
              /\ Update(force_refresh, latest_data, 0, "False")
    ELSE /\ table' = table
         /\ Update(force_refresh, latest_data, 0, "RuntimeError")

\* fetch_and_update_data_async(data_source, data_store, force_refresh)
FetchAndUpdateDataAsync ==
    /\ backend # "none"
    /\ \E db_session_date_str \in {get_latest_session_date(backend, table)} :
         \E force_refresh \in BOOLEAN, write_ok \in BOOLEAN :
           \E latest_data \in SourceResults :
             FetchWith(force_refresh, latest_data, db_session_date_str, write_ok)
    /\ UNCHANGED <<backend, loaded>>
    /\ UNCHANGED <<calcVars, threadVars, parserVars, scraperVars>>

FetchNext ==
    \/ NewSQLiteDBManager
    \/ NewPostgresDBManager
    \/ FetchAndUpdateDataAsync

SpecFetch == Init /\ [][FetchNext]_vars

(***************************************************************************)
(* Exact arithmetic on the returned values, for stating the properties.    *)
(***************************************************************************)
ExactAdd(a, b) ==
    LET al == Aligned(a, b) IN DecAdd(a, b, Len(al.x) + Len(al.y) + 1)

ExactSub(a, b) == ExactAdd(a, DecNeg(b))

ExactMul(a, b) == Dec(a.neg # b.neg, NatMul(a.coef, b.coef), a.exp + b.exp)

DecAbs(a) == Dec(FALSE, a.coef, a.exp)

DecEq(a, b) == DecCmp(a, b) = 0

IsPositive(x) == ~x.neg /\ x.coef # <<>>

IsNegative(x) == x.neg /\ x.coef # <<>>

\* |x - y| <= k * 10^-9 * |y|
WithinBillionths(x, y, k) ==
    DecLe(DecAbs(ExactSub(x, y)), ExactMul(DecAbs(y), Dec(FALSE, NatDigits(k), -9)))

\* price * (36500 + yield * days) against face * 36500
FormulaLhs(price, yield, days) ==
    ExactMul(price, ExactAdd(DecInt(100 * DAYS_IN_YEAR), ExactMul(yield, DecInt(days))))

FormulaRhs(face) == ExactMul(face, DecInt(100 * DAYS_IN_YEAR))

Called == pc \in {"returned", "raised"}

PrimaryDone == Called /\ call = "primary"

SecondaryDone == Called /\ call = "secondary"

PrimaryResult == PrimaryDone /\ out.kind = "result"

SecondaryResult == SecondaryDone /\ out.kind = "result"

(***************************************************************************)
(* C1: for every input that passes the input validation, the discounter    *)
(* returns a price with 0 < price < face_value and does not fail.          *)
(***************************************************************************)
C1_DiscounterInRange ==
    /\ (PrimaryDone /\ _validate_primary_inputs(inp).ok)
         => /\ out.kind = "result"
            /\ IsPositive(out.purchase_price)
            /\ DecLt(out.purchase_price, inp.face_value)
    /\ (SecondaryDone /\ _validate_secondary_inputs(inp).ok)
         => /\ out.kind = "result"
            /\ IsPositive(out.original_purchase_price)
            /\ DecLt(out.original_purchase_price, inp.face_value)
            /\ IsPositive(out.sale_price)
            /\ DecLt(out.sale_price, inp.face_value)

(***************************************************************************)
(* C2: the returned price equals face_value / (1 + (yield/100)*(days/365)) *)
(* exactly, for (face, yield_rate, tenor) in the primary calculator and    *)
(* for (face, original_yield, original_tenor) and (face, secondary_yield,  *)
(* original_tenor - holding_days) in the secondary one.                    *)
(***************************************************************************)
C2_PriceEqualsFormulaExactly ==
    /\ PrimaryResult =>
         DecEq(FormulaLhs(out.purchase_price, inp.yield_rate, inp.tenor),
               FormulaRhs(inp.face_value))
    /\ SecondaryResult =>
         /\ DecEq(FormulaLhs(out.original_purchase_price, inp.original_yield,
                             inp.original_tenor),
                  FormulaRhs(inp.face_value))
         /\ DecEq(FormulaLhs(out.sale_price, inp.secondary_yield,
                             inp.original_tenor - inp.holding_days),
                  FormulaRhs(inp.face_value))

(***************************************************************************)
(* C2 (amended): the returned price equals the formula, with the fixed     *)
(* divisor 365 and the arguments named in the claim, up to the rounding of *)
(* the decimal arithmetic: the relative error is at most 2 * 10^-9.        *)
(***************************************************************************)
C2_PriceEqualsFormula ==
    /\ PrimaryResult =>
         WithinBillionths(FormulaLhs(out.purchase_price, inp.yield_rate, inp.tenor),
                          FormulaRhs(inp.face_value), 2)
    /\ SecondaryResult =>
         /\ WithinBillionths(FormulaLhs(out.original_purchase_price, inp.original_yield,
                                        inp.original_tenor),
                             FormulaRhs(inp.face_value), 2)
         /\ WithinBillionths(FormulaLhs(out.sale_price, inp.secondary_yield,
                                        inp.original_tenor - inp.holding_days),
                             FormulaRhs(inp.face_value), 2)

\* a secondary result whose two discounting periods and two yields differ
C2_Witness ==
    /\ SecondaryResult
    /\ inp.original_yield # inp.secondary_yield
    /\ inp.holding_days = 90
    /\ inp.original_tenor = 364

(***************************************************************************)
(* C3: the result of calculate_primary_yield is self-consistent, exactly:  *)
(* purchase_price + gross_return = face_value, tax_amount =                *)
(* gross_return * tax_rate / 100, net_return = gross_return - tax_amount.  *)
(***************************************************************************)
C3_SelfConsistentExactly ==
    PrimaryResult =>
        /\ DecEq(ExactAdd(out.purchase_price, out.gross_return), inp.face_value)
        /\ DecEq(ExactMul(out.tax_amount, DecInt(100)),
                 ExactMul(out.gross_return, inp.tax_rate))
        /\ DecEq(out.net_return, ExactSub(out.gross_return, out.tax_amount))

(***************************************************************************)
(* C3 (amended): the three identities hold up to the rounding of the       *)
(* decimal arithmetic, with a relative error of at most 10^-9.             *)
(***************************************************************************)
C3_SelfConsistent ==
    PrimaryResult =>
        /\ WithinBillionths(ExactAdd(out.purchase_price, out.gross_return),
                            inp.face_value, 1)
        /\ WithinBillionths(ExactMul(out.tax_amount, DecInt(100)),
                            ExactMul(out.gross_return, inp.tax_rate), 1)
        /\ WithinBillionths(out.net_return,
                            ExactSub(out.gross_return, out.tax_amount), 1)

\* a result whose tax does not fit ten digits exactly
C3_Witness ==
    /\ PrimaryResult
    /\ IsPositive(out.tax_amount)
    /\ ~DecEq(ExactMul(out.tax_amount, DecInt(100)),
              ExactMul(out.gross_return, inp.tax_rate))

(***************************************************************************)
(* C4: in every result of calculate_primary_yield, total_payout is the     *)
(* input face_value, whatever the tax rate, the yield and the tenor.       *)
(***************************************************************************)
C4_TotalPayoutIsFaceValue ==
    PrimaryResult => out.total_payout = inp.face_value

C4_Witness ==
    /\ PrimaryResult
    /\ inp.face_value = LongFace
    /\ IsPositive(inp.tax_rate)

(***************************************************************************)
(* C5: tax-rate boundaries.  tax_rate = 0: net_return = gross_return, and  *)
(* in the secondary result tax_amount = 0 and net_profit = gross_profit.   *)
(* tax_rate = 100: net_return = 0, and for a positive gross_profit         *)
(* tax_amount = gross_profit and net_profit = 0.                           *)
(***************************************************************************)
C5_TaxRateBoundaries ==
    /\ (PrimaryResult /\ inp.tax_rate = Flt(0, 0))
         => out.net_return = out.gross_return
    /\ (SecondaryResult /\ inp.tax_rate = Flt(0, 0))
         => out.tax_amount = DecZero /\ out.net_profit = out.gross_profit
    /\ (PrimaryResult /\ inp.tax_rate = Flt(100, 0))
         => out.net_return = DecZero
    /\ (SecondaryResult /\ inp.tax_rate = Flt(100, 0) /\ IsPositive(out.gross_profit))
         => out.tax_amount = out.gross_profit /\ out.net_profit = DecZero

C5_Witness ==
    /\ SecondaryResult
    /\ inp.tax_rate = Flt(100, 0)
    /\ IsPositive(out.gross_profit)

(***************************************************************************)
(* C6: for every input the PrimaryYieldInput constructor accepts,          *)
(* calculate_primary_yield returns a result (it does not raise) with       *)
(* purchase_price < face_value and total_payout = face_value.              *)
(***************************************************************************)
C6_AcceptedInputReturns ==
    PrimaryDone =>
        /\ out.kind = "result"
        /\ DecLt(out.purchase_price, inp.face_value)
        /\ out.total_payout = inp.face_value

(***************************************************************************)
(* C7: PrimaryYieldInput is rejected with a ValidationError exactly when   *)
(* face_value <= 0, yield_rate <= 0, tenor <= 0, tax_rate < 0 or           *)
(* tax_rate > 100, and the calculator is only ever called with an input    *)
(* whose four fields are in range.                                         *)
(***************************************************************************)
PrimaryOutOfRange ==
    \/ ~IsPositive(inp.face_value)
    \/ ~IsPositive(inp.yield_rate)
    \/ inp.tenor <= 0
    \/ IsNegative(inp.tax_rate)
    \/ DecCmp(inp.tax_rate, DecInt(100)) > 0

C7_PrimaryInputValidation ==
    call = "primary" =>
        /\ (pc = "rejected") <=> PrimaryOutOfRange
        /\ pc = "rejected" => out.kind = "ValidationError" /\ out.fields # {}
        /\ pc \in {"built", "returned", "raised"} => ~PrimaryOutOfRange

C7_Witness ==
    /\ call = "primary"
    /\ pc = "rejected"
    /\ inp.face_value = Flt(0, 0)
    /\ out.fields = {"face_value"}

(***************************************************************************)
(* C8: a secondary-sale input with holding_days <= 0 or holding_days >=    *)
(* original_tenor is rejected with a ValidationError naming holding_days,  *)
(* and no result is produced for a holding_days outside                    *)
(* 0 < holding_days < original_tenor.                                      *)
(***************************************************************************)
HoldingDaysOutside == inp.holding_days <= 0 \/ inp.holding_days >= inp.original_tenor

C8_HoldingDaysAlwaysNamed ==
    call = "secondary" =>
        /\ HoldingDaysOutside =>
             /\ pc = "rejected"
             /\ out.kind = "ValidationError"
             /\ "holding_days" \in out.fields
        /\ SecondaryResult => ~HoldingDaysOutside

(***************************************************************************)
(* C8 (amended): such an input is always rejected with a ValidationError   *)
(* and never yields a result; the error names holding_days when            *)
(* holding_days <= 0, or when original_tenor is itself valid (> 0) and     *)
(* holding_days >= original_tenor.  With original_tenor <= 0 and a         *)
(* positive holding_days the error names original_tenor, not holding_days. *)
(***************************************************************************)
C8_HoldingDaysRejected ==
    call = "secondary" =>
        /\ HoldingDaysOutside =>
             /\ pc = "rejected"
             /\ out.kind = "ValidationError"
             /\ (inp.holding_days <= 0 \/ inp.original_tenor > 0)
                  => "holding_days" \in out.fields
             /\ (inp.holding_days > 0 /\ inp.original_tenor <= 0)
                  => /\ "original_tenor" \in out.fields
                     /\ "holding_days" \notin out.fields
        /\ SecondaryResult => ~HoldingDaysOutside

\* holding_days equal to a valid tenor, every other field valid
C8_Witness ==
    /\ call = "secondary"
    /\ pc = "rejected"
    /\ inp.original_tenor = 364
    /\ inp.holding_days = 364
    /\ out.fields = {"holding_days"}

C10_TaxOnGainsOnlyExactly ==
    SecondaryResult =>
        /\ ~IsPositive(out.gross_profit)
             => out.tax_amount = DecZero /\ out.net_profit = out.gross_profit
        /\ IsPositive(out.gross_profit)
             => DecEq(ExactMul(out.tax_amount, DecInt(100)),
                      ExactMul(out.gross_profit, inp.tax_rate))
        /\ ~IsNegative(out.tax_amount)

(***************************************************************************)
(* C10 (amended): as C10, but for gross_profit > 0 the tax_amount is       *)
(* gross_profit * tax_rate / 100 rounded to the precision of the decimal   *)
(* arithmetic: the relative error is at most 10^-9.                        *)
(***************************************************************************)
C10_TaxOnGainsOnly ==
    SecondaryResult =>
        /\ ~IsPositive(out.gross_profit)
             => out.tax_amount = DecZero /\ out.net_profit = out.gross_profit
        /\ IsPositive(out.gross_profit)
             => WithinBillionths(ExactMul(out.tax_amount, DecInt(100)),
                                 ExactMul(out.gross_profit, inp.tax_rate), 1)
        /\ ~IsNegative(out.tax_amount)

\* a loss under a positive tax rate
C10_Witness ==
    /\ SecondaryResult
    /\ IsNegative(out.gross_profit)
    /\ IsPositive(inp.tax_rate)

(***************************************************************************)
(* Comparing two calls that differ in one yield.  The second call is the   *)
(* calculator applied to the same keyword arguments with the yield         *)
(* replaced by a value of CompareYields: the 25.01 that                    *)
(* test_precision_calculation compares with 25.0, and a yield next to the  *)
(* smallest sampled one.                                                   *)
(***************************************************************************)
\* 0.0000101 and 25.01
CompareYields == {Flt(101, -7), Flt(2501, -2)}

\* the outcome of building the input with secondary_yield = y and calling
SecondaryAt(kw, y) ==
    IF SecondarySaleInput([kw EXCEPT !.secondary_yield = y]) # {}
    THEN [kind |-> "ValidationError"]
    ELSE analyze_secondary_sale([kw EXCEPT !.secondary_yield = y], DECIMAL_PREC)

\* the outcome of building the input with yield_rate = y and calling
PrimaryAt(kw, y) ==
    IF PrimaryYieldInput([kw EXCEPT !.yield_rate = y]) # {}
    THEN [kind |-> "ValidationError"]
    ELSE calculate_primary_yield([kw EXCEPT !.yield_rate = y], DECIMAL_PREC)

\* (y2 - y1) * days >= 0.001: the yields are far enough apart for the days
FarApart(y1, y2, days) ==
    DecLe(Dec(FALSE, <<1>>, -3), ExactMul(DecAbs(ExactSub(y2, y1)), DecInt(days)))

StrictlyLower(second, first) ==
    /\ DecLt(second.sale_price, first.sale_price)
    /\ DecLt(second.gross_profit, first.gross_profit)

NotHigher(second, first) ==
    /\ DecLe(second.sale_price, first.sale_price)
    /\ DecLe(second.gross_profit, first.gross_profit)

(***************************************************************************)
(* C11: the discounted price is strictly decreasing in the yield: a higher *)
(* secondary_yield, the other inputs equal, gives a strictly smaller       *)
(* sale_price and gross_profit, and two different yield_rate values give   *)
(* different purchase_price values.                                        *)
(***************************************************************************)
SecondaryStrict(first, second) ==
    second.kind = "result" => StrictlyLower(second, first)

PrimaryDiffer(first, second) ==
    second.kind = "result" => second.purchase_price # first.purchase_price

C11_StrictlyDecreasingInYield ==
    /\ SecondaryResult =>
         \A y \in CompareYields :
            FloatLt(inp.secondary_yield, y) =>
               \A second \in {SecondaryAt(inp, y)} : SecondaryStrict(out, second)
    /\ PrimaryResult =>
         \A y \in CompareYields :
            y # inp.yield_rate =>
               \A second \in {PrimaryAt(inp, y)} : PrimaryDiffer(out, second)

(***************************************************************************)
(* C11 (amended): the price never increases with the yield, and it is      *)
(* strictly smaller (and the purchase prices differ) whenever the two      *)
(* yields are at least 0.001 / days apart, days being the discounting      *)
(* period; closer yields can round to the same price.                      *)
(***************************************************************************)
SecondaryOrdered(first, second, far) ==
    second.kind = "result" =>
        /\ NotHigher(second, first)
        /\ far => StrictlyLower(second, first)

PrimaryOrdered(first, second, far) ==
    second.kind = "result" =>
        /\ DecLe(second.purchase_price, first.purchase_price)
        /\ far => DecLt(second.purchase_price, first.purchase_price)

C11_DecreasingInYield ==
    /\ SecondaryResult =>
         \A y \in CompareYields :
            FloatLt(inp.secondary_yield, y) =>
               \A second \in {SecondaryAt(inp, y)} :
                  SecondaryOrdered(out, second,
                      FarApart(inp.secondary_yield, y, inp.original_tenor - inp.holding_days))
    /\ PrimaryResult =>
         \A y \in CompareYields :
            FloatLt(inp.yield_rate, y) =>
               \A second \in {PrimaryAt(inp, y)} :
                  PrimaryOrdered(out, second, FarApart(inp.yield_rate, y, inp.tenor))

\* the pair of test_precision_calculation, 25.0 against 25.01
C11_Witness ==
    /\ PrimaryResult
    /\ inp.yield_rate = Flt(25, 0)
    /\ PrimaryAt(inp, Flt(2501, -2)).kind = "result"
    /\ DecLt(PrimaryAt(inp, Flt(2501, -2)).purchase_price, out.purchase_price)

(***************************************************************************)
(* C12: whenever secondary_yield > original_yield, the resale price is     *)
(* below the original cost: sale_price < original_purchase_price and       *)
(* gross_profit < 0.                                                       *)
(***************************************************************************)
C12_HigherYieldIsLoss ==
    (SecondaryResult /\ FloatLt(inp.original_yield, inp.secondary_yield))
        => /\ DecLt(out.sale_price, out.original_purchase_price)
           /\ IsNegative(out.gross_profit)

\* secondary_yield * remaining days - original_yield * original_tenor
DiscountExcess ==
    ExactSub(ExactMul(inp.secondary_yield, DecInt(inp.original_tenor - inp.holding_days)),
             ExactMul(inp.original_yield, DecInt(inp.original_tenor)))

(***************************************************************************)
(* C12 (amended): the resale is discounted over the remaining days only,   *)
(* so the sale is a loss when secondary_yield * (original_tenor -          *)
(* holding_days) exceeds original_yield * original_tenor (by 0.001 or      *)
(* more, the resolution of the decimal arithmetic), and a gain when it is  *)
(* below it by as much, even with secondary_yield > original_yield.        *)
(***************************************************************************)
C12_LossWhenDiscountExceeds ==
    SecondaryResult =>
        /\ DecLe(Dec(FALSE, <<1>>, -3), DiscountExcess)
             => /\ DecLt(out.sale_price, out.original_purchase_price)
                /\ IsNegative(out.gross_profit)
        /\ DecLe(DiscountExcess, Dec(TRUE, <<1>>, -3))
             => /\ DecLt(out.original_purchase_price, out.sale_price)
                /\ IsPositive(out.gross_profit)

\* a loss at a secondary yield above the original one
C12_Witness ==
    /\ SecondaryResult
    /\ FloatLt(inp.original_yield, inp.secondary_yield)
    /\ inp.holding_days = 90
    /\ IsNegative(out.gross_profit)

(***************************************************************************)
(* C13: both calculators validate before they compute.  In every step of   *)
(* every thread: the discounter's prices appear only in a call that has    *)
(* passed the validation; a call whose input fails a check goes from the   *)
(* validation to an error, with no result and no price computed; and a     *)
(* result is returned only for an input that passes every check.           *)
(***************************************************************************)
ValidatedFirst(t) ==
    (thread'[t].pc = "priced" /\ thread[t].pc # "priced")
        => (thread[t].pc = "validated" /\ ValidationOf(thread[t]).ok)

FailsFast(t) ==
    (thread[t].pc = "called" /\ ~ValidationOf(thread[t]).ok /\ thread'[t] # thread[t])
        => /\ thread'[t].pc = "raised"
           /\ thread'[t].out.kind = "ValueError"
           /\ frame'[t] = NoFrame

NoPartialResult(t) ==
    thread'[t].out.kind = "result"
        => (thread'[t].pc = "returned" /\ ValidationOf(thread'[t]).ok)

C13_ValidateBeforeCompute ==
    [][\A t \in Threads : ValidatedFirst(t) /\ FailsFast(t) /\ NoPartialResult(t)]_vars

\* one thread's call was refused by the validation while the other's returned
C13_Witness ==
    \E t, u \in Threads :
        /\ thread[t].pc = "raised" /\ ~ValidationOf(thread[t]).ok
        /\ thread[u].pc = "returned" /\ thread[u].out.kind = "result"

(***************************************************************************)
(* C14: a calculator call that fails on an out-of-range input fails with a *)
(* ValidationError naming the offending field, and a call that fails on an *)
(* arithmetic fault fails with an error of another kind, CalculationError. *)
(***************************************************************************)
CallValidation ==
    IF call = "primary" THEN _validate_primary_inputs(inp)
    ELSE _validate_secondary_inputs(inp)

RangeFailure == pc = "raised" /\ ~CallValidation.ok

ArithmeticFault == pc = "raised" /\ CallValidation.ok

C14_RangeFailureIsValidationError ==
    /\ RangeFailure => (out.kind = "ValidationError" /\ out.fields # {})
    /\ ArithmeticFault => out.kind = "CalculationError"

(***************************************************************************)
(* C15: an arithmetic fault is never swallowed.  A validated call whose    *)
(* discounting fails (denominator <= 0, price <= 0 or price >= face_value) *)
(* raises and returns no result; in every result the prices are the        *)
(* discounted values, strictly between 0 and face_value, and the ratio     *)
(* output is net / purchase price * 100, not the default 0.                *)
(***************************************************************************)
\* a discounting step seen from outside: whether it is at fault, and the
\* price it yields as a float
PriceWith(face_value, denominator, price) ==
    [fault |-> \/ DecLe(denominator, DecZero)
               \/ DecLe(price, DecZero)
               \/ DecLe(face_value, price),
     price |-> ToFloat(price)]

DiscountedBy(face_value, denominator) ==
    PriceWith(face_value, denominator, DecDiv(face_value, denominator, DECIMAL_PREC))

\* face_value / (1 + yield / 100 * days / 365) under the module's context
Discounting(face_value, yield, days) ==
    DiscountedBy(DecimalOfFloat(face_value),
                 Denominator(DecimalOfFloat(yield), DecimalOfInt(days), DECIMAL_PREC))

RatioOf(net, price) ==
    ToFloat(DecMul(DecDiv(DecimalOfFloat(net), DecimalOfFloat(price), DECIMAL_PREC),
                   DecInt(100), DECIMAL_PREC))

PrimaryAgrees(d) ==
    IF d.fault
    THEN pc = "raised" /\ out.kind = "ValueError"
    ELSE PrimaryResult =>
           /\ out.purchase_price = d.price
           /\ FloatLt(DecZero, out.purchase_price)
           /\ out.real_profit_percentage = RatioOf(out.net_return, out.purchase_price)

PrimaryNotDefaulted ==
    (PrimaryDone /\ CallValidation.ok) =>
        PrimaryAgrees(Discounting(inp.face_value, inp.yield_rate, inp.tenor))

SecondaryAgrees(original, resale) ==
    IF original.fault \/ resale.fault
    THEN pc = "raised" /\ out.kind = "ValueError"
    ELSE SecondaryResult =>
           /\ out.original_purchase_price = original.price
           /\ out.sale_price = resale.price
           /\ FloatLt(DecZero, out.original_purchase_price)
           /\ out.period_yield = RatioOf(out.net_profit, out.original_purchase_price)

SecondaryNotDefaulted ==
    (SecondaryDone /\ CallValidation.ok) =>
        SecondaryAgrees(Discounting(inp.face_value, inp.original_yield, inp.original_tenor),
                        Discounting(inp.face_value, inp.secondary_yield,
                                    inp.original_tenor - inp.holding_days))

C15_FaultNeverDefaulted == PrimaryNotDefaulted /\ SecondaryNotDefaulted

\* a result with a ratio that is not 0, and elsewhere a fault that raised
C15_Witness ==
    \/ PrimaryResult /\ out.real_profit_percentage # DecZero
         /\ out.real_profit_percentage = RatioOf(out.net_return, out.purchase_price)
    \/ SecondaryResult /\ out.period_yield # DecZero /\ IsNegative(out.period_yield)

(***************************************************************************)
(* C16: two calls of the same calculator with identical inputs end with    *)
(* identical outcomes, whichever thread makes each call.                   *)
(***************************************************************************)
Ended(t) == thread[t].pc \in {"returned", "raised"}

C16_SameInputsSameResult ==
    \A t, u \in Threads :
        (Ended(t) /\ Ended(u) /\ thread[t].call = thread[u].call
                  /\ thread[t].inp = thread[u].inp)
            => thread[t].out = thread[u].out

(***************************************************************************)
(* C17: a call shares no state with other calls.  Under every interleaving *)
(* of the two threads' calls, the prices a call holds between its steps    *)
(* are the ones its own discounter produced, and the call ends with the    *)
(* outcome the calculator gives for its input when run alone in the same   *)
(* thread.                                                                 *)
(***************************************************************************)
RunAlone(th, p) ==
    IF th.call = "primary" THEN calculate_primary_yield(th.inp, p)
    ELSE analyze_secondary_sale(th.inp, p)

OwnPrice(th, p) ==
    IF th.call = "primary" THEN PurchasePriceOf(th.inp, th.inp.yield_rate, th.inp.tenor, p)
    ELSE PurchasePriceOf(th.inp, th.inp.original_yield, th.inp.original_tenor, p)

C17_IndependentOfInterleaving ==
    \A t \in Threads :
        /\ thread[t].pc = "priced" => frame[t].price = OwnPrice(thread[t], prec[t]).value
        /\ Ended(t) => thread[t].out = RunAlone(thread[t], prec[t])

\* one call has returned while a different call of the other thread is
\* between its discounter and its return
C17_Witness ==
    \E t, u \in Threads :
        /\ t # u
        /\ thread[t].pc = "returned"
        /\ thread[u].pc = "priced"
        /\ thread[u].inp # thread[t].inp

(***************************************************************************)
(* C18: calculate_primary_yield(face_value=100000, yield_rate=25.0,        *)
(* tenor=364, tax_rate=20.0) returns, to two decimals, purchase_price      *)
(* 80702.93, gross_return 19297.07, tax_amount 3859.41 and net_return      *)
(* 15437.66, with total_payout exactly 100000.0.                           *)
(***************************************************************************)
ScenarioInput ==
    [face_value |-> Flt(100000, 0), yield_rate |-> Flt(25, 0), tenor |-> 364,
     tax_rate |-> Flt(20, 0)]

ScenarioCalled == PrimaryDone /\ inp = ScenarioInput

\* round(x, 2) of a float of at least 0.01; DecRound rounds half to even
ToCents(x) == DecRound(x, Len(x.coef) + x.exp + 2)

\* x is n hundredths when rounded to two decimals
IsCents(x, n) == DecEq(ToCents(x), Flt(n, -2))

C18_ScenarioAsStated ==
    ScenarioCalled =>
        /\ out.kind = "result"
        /\ IsCents(out.purchase_price, 8070293)
        /\ IsCents(out.gross_return, 1929707)
        /\ IsCents(out.tax_amount, 385941)
        /\ IsCents(out.net_return, 1543766)
        /\ out.total_payout = Flt(100000, 0)

(***************************************************************************)
(* C18 (amended): the same call returns, to two decimals, purchase_price   *)
(* 80043.86, gross_return 19956.14, tax_amount 3991.23 and net_return      *)
(* 15964.91, with total_payout exactly 100000.0.                           *)
(***************************************************************************)
C18_ScenarioAsComputed ==
    ScenarioCalled =>
        /\ out.kind = "result"
        /\ IsCents(out.purchase_price, 8004386)
        /\ IsCents(out.gross_return, 1995614)
        /\ IsCents(out.tax_amount, 399123)
        /\ IsCents(out.net_return, 1596491)
        /\ out.total_payout = Flt(100000, 0)

C18_Witness == ScenarioCalled /\ pc = "returned" /\ IsCents(out.purchase_price, 8004386)

(***************************************************************************)
(* C19: the configured limits are enforced.  A result is returned only if  *)
(* MIN_T_BILL_AMOUNT <= face_value <= MAX_T_BILL_AMOUNT, every yield is    *)
(* <= MAX_YIELD_RATE and the tenor is <= MAX_TENOR_DAYS; a call or a       *)
(* construction with an input outside a limit ends in an error, no result. *)
(***************************************************************************)
FaceWithinLimits(face_value) ==
    /\ FloatLe(Flt(MIN_T_BILL_AMOUNT, 0), face_value)
    /\ FloatLe(face_value, Flt(MAX_T_BILL_AMOUNT, 0))

YieldWithinLimit(yield) == FloatLe(yield, Flt(MAX_YIELD_RATE, 0))

WithinLimits ==
    IF call = "primary"
    THEN /\ FaceWithinLimits(inp.face_value)
         /\ YieldWithinLimit(inp.yield_rate)
         /\ inp.tenor <= MAX_TENOR_DAYS
    ELSE /\ FaceWithinLimits(inp.face_value)
         /\ YieldWithinLimit(inp.original_yield)
         /\ YieldWithinLimit(inp.secondary_yield)
         /\ inp.original_tenor <= MAX_TENOR_DAYS

IsLatestStored(r) == \E s \in LatestOfTenor(table, r.tenor) : Selected(s) = r

C20_OneLatestRowPerTenor ==
    loaded.kind = "frame" =>
        IF table = {}
        THEN loaded.rows = {} /\ loaded.info = INITIAL_DATA_MARKER
        ELSE /\ \A t \in TenorsIn(table) :
                  Cardinality({r \in loaded.rows : r.tenor = t}) = 1
             /\ \A r \in loaded.rows : IsLatestStored(r)

(***************************************************************************)
(* C26: the sign of gross_profit is decided by yield times days:           *)
(* gross_profit > 0 exactly when secondary_yield * (original_tenor -       *)
(* holding_days) < original_yield * original_tenor, < 0 exactly when it is *)
(* greater, and = 0 exactly when the two products are equal.               *)
(***************************************************************************)
ExcessNegative == IsNegative(DiscountExcess)

ExcessPositive == IsPositive(DiscountExcess)

ChronologicallyLatest(s) ==
    /\ \E r \in table : r.session_date = s
    /\ \A r \in table : to_date(r.session_date) <= to_date(s)

EssentialMarkers == {ESSENTIAL_TEXT_MARKERS[i] : i \in DOMAIN ESSENTIAL_TEXT_MARKERS}

AbsentMarkers == {marker \in EssentialMarkers : ~Contains(page, marker)}

C24_RaisesExactlyOnMissingMarker ==
    parsed.kind \in {"RuntimeError", "passed"} =>
        /\ (parsed.kind = "RuntimeError") <=> (AbsentMarkers # {})
        /\ (parsed.kind = "passed") <=> (AbsentMarkers = {})
        /\ parsed.kind = "RuntimeError" =>
               {parsed.missing[i] : i \in DOMAIN parsed.missing} = AbsentMarkers

\* the check raised on a page that lacks two markers but has the others
C24_Witness ==
    /\ parsed.kind = "RuntimeError"
    /\ AbsentMarkers = {YIELD_ANCHOR_TEXT, SESSION_DATE_MARKER}

(***************************************************************************)
(* C23: the frame returned by _parse_cbe_html has, besides the columns     *)
(* tenor, yield and scrape_date, the column session_date_dt, filled in     *)
(* every row, so that the latest session date can be read from it.         *)
(***************************************************************************)
C23_FrameKeepsSessionDateDt ==
    parsed.kind = "frame" =>
        /\ {"tenor", "yield", "scrape_date", "session_date_dt"} \subseteq parsed.columns
        /\ \A k \in 1..Len(parsed.rows) :
               parsed.columns \subseteq DOMAIN parsed.rows[k]

(***************************************************************************)
(* C22: for a page with several result sections _parse_cbe_html returns    *)
(* exactly one row per distinct tenor found in the complete sections, each *)
(* row carrying the yield and the session date of the most recent session  *)
(* that lists that tenor; a section with a missing yield contributes no    *)
(* rows.                                                                   *)
(***************************************************************************)
\* section i has its session dates and all its yields
Complete(pg, i) ==
    /\ pg[i].dates_row
    /\ pg[i].bids
    /\ pg[i].yield_row
    /\ \A k \in 1..Len(pg[i].columns) : pg[i].columns[k].yield # NaN

\* the columns of the complete sections
ListedOf(pg) ==
    UNION {{pg[i].columns[k] : k \in 1..Len(pg[i].columns)} :
              i \in {j \in 1..Len(pg) : Complete(pg, j)}}

\* the calendar order of two session date cells
Later(s, t) == to_datetime(s) >= to_datetime(t)

ReturnedRows == IF parsed.kind = "frame" THEN parsed.rows ELSE <<>>

C22_OneRowPerTenorOfLatestSession ==
    parsed.kind \in {"frame", "None"} =>
        /\ \A c \in ListedOf(page) :
               \E k \in 1..Len(ReturnedRows) : ReturnedRows[k].tenor = c.tenor
        /\ \A k, m \in 1..Len(ReturnedRows) :
               ReturnedRows[k].tenor = ReturnedRows[m].tenor => k = m
        /\ \A k \in 1..Len(ReturnedRows) :
               \E c \in ListedOf(page) :
                   /\ c.tenor = ReturnedRows[k].tenor
                   /\ c.session_date = ReturnedRows[k].session_date
                   /\ c.yield = ReturnedRows[k].yield
                   /\ \A d \in ListedOf(page) :
                          d.tenor = c.tenor => Later(c.session_date, d.session_date)

(***************************************************************************)
(* C28: after any sequence of scrape attempts by one CbeScraper, whether   *)
(* they succeed, return nothing or fail with an exception, its statistics  *)
(* satisfy total_scrapes = successful_scrapes + failed_scrapes.            *)
(***************************************************************************)
C28_TotalIsSuccessfulPlusFailed ==
    scrape_stats.total_scrapes =
        scrape_stats.successful_scrapes + scrape_stats.failed_scrapes

(***************************************************************************)
(* C29: after any sequence of get_latest_yields_async calls the cache      *)
(* entry, if present, is the data of the most recent scrape that returned  *)
(* a non-empty frame.                                                      *)
(***************************************************************************)
C29_EntryIsLatestNonEmptyScrape ==
    entry # NoValue => read_json(entry) = last_live

(***************************************************************************)
(* C29, amended: the cache entry, if present, is the data of a scrape that *)
(* returned a non-empty frame, and a call changes it only into the data of *)
(* the scrape it has just made: with a Redis client, a scrape that returns *)
(* a non-empty frame overwrites the entry unless Redis refuses the write,  *)
(* in which case the older entry stays; a failed or empty scrape never     *)
(* writes or clears the entry; a call that does not scrape was made with   *)
(* force_refresh=False and returns the entry; a call with                  *)
(* force_refresh=True always scrapes and returns the live data.            *)
(***************************************************************************)
\* the step is a call of get_latest_yields_async
IsCall == scrape_stats' # scrape_stats

Scraped ==
    scrape_stats'.successful_scrapes + scrape_stats'.failed_scrapes
        > scrape_stats.successful_scrapes + scrape_stats.failed_scrapes

C29_CallStep ==
    /\ entry' # NoValue => NonEmpty(read_json(entry'))
    /\ entry' # entry =>
           \/ entry' = NoValue /\ ~IsCall
           \/ /\ IsCall
              /\ Scraped
              /\ NonEmpty(got'.live)
              /\ read_json(entry') = got'.live
    /\ (IsCall /\ Scraped /\ NonEmpty(got'.live) /\ redis_client = "client") =>
           IF got'.write_ok
           THEN entry' # NoValue /\ read_json(entry') = got'.live
           ELSE entry' = entry
    /\ (IsCall /\ ~Scraped) =>
           /\ ~got'.force_refresh
           /\ entry # NoValue
           /\ got'.value = read_json(entry)
    /\ (IsCall /\ got'.force_refresh) =>
           /\ Scraped
           /\ got'.value = IF got'.live.kind = "frame" THEN got'.live ELSE None

C29_EntryOnlyFromOwnScrape == [][C29_CallStep]_vars

\* a call without force_refresh returned the entry written by the second of
\* two successful scrapes
C29_Witness ==
    /\ got # NoValue
    /\ ~got.scraped
    /\ scrape_stats.successful_scrapes = 2
    /\ got.value = last_live
    /\ entry # NoValue

(***************************************************************************)
(* Statements about the last call of fetch_and_update_data_async.          *)
(***************************************************************************)
Fetched == updated.latest_data

FetchedRows == IF NonEmpty(Fetched) THEN Fetched.rows ELSE <<>>

\* the latest session date of the store when the call began, by calendar
LatestBefore ==
    IF updated.before = {} THEN <<>>
    ELSE (CHOOSE r \in updated.before :
              \A q \in updated.before : Later(r.session_date, q.session_date)).session_date

\* the data is new for the store, as the call sees it
SeenAsNew ==
    /\ NonEmpty(Fetched)
    /\ \/ updated.force_refresh
       \/ LatestBefore = <<>>
       \/ FetchedRows[1].session_date # LatestBefore

InStore(row) == \E r \in table : SameKey(r, row)

C27_FalseOnlyWhenAllRowsStored ==
    (updated # NoValue /\ updated.returned = "False") =>
        \A k \in 1..Len(FetchedRows) : InStore(FetchedRows[k])

(***************************************************************************)
(* C30: fetch_and_update_data_async returns True only if the fetched rows  *)
(* are in the store when it returns, for either store implementation.      *)
(***************************************************************************)
C30_TrueOnlyWhenRowsStored ==
    (updated # NoValue /\ updated.returned = "True") =>
        \A k \in 1..Len(FetchedRows) : FetchedRows[k] \in table

====
